---- MODULE Spec2Model ----
(***************************************************************************)
(* Sentiment Aura: the request orchestrator of the frontend hook           *)
(* (useAudioCapture: callBackendAPI, provideFallbackAnalysis, cleanup,      *)
(* handleTranscript, start), the local fallback result of both hooks, and   *)
(* the backend (server.js: callGeminiAPI, the field normalizers,            *)
(* extractKeywords, buildAnalysisResponse, POST /process_text).             *)
(*                                                                         *)
(* SpecGemini     one callGeminiAPI call after another, the upstream        *)
(*                answering each attempt with a response or a failure.      *)
(* SpecOrch       one hook instance: transcript events, backend responses,  *)
(*                timers, start, stop and effect re-runs in any order.      *)
(* SpecFallback   both fallback builders applied to one input text.         *)
(* SpecBuild      buildAnalysisResponse applied to one parsed reply.        *)
(* SpecNormalize  normalizeSentiment and deriveSentimentLabel applied to    *)
(*                one input.                                                *)
(* SpecServer     POST /process_text requests, one after the other, from    *)
(*                the body parser to the response.                          *)
(***************************************************************************)
EXTENDS Integers, Sequences, FiniteSets, TLC

VARIABLES
    \* ---- server.js: callGeminiAPI ----
    gPc,          \* "idle" | "attempting" | "waiting" | "returned" | "thrown"
    gRetries,     \* the retries argument of the running call
    gAttempt,     \* the loop variable attempt
    gLog,         \* what the upstream answered to each attempt made, in order
    gWaits,       \* the backoff delays (ms) slept so far, in order
    gLastError,   \* lastError
    gOutcome,     \* what the call returned or threw
    gElapsed,     \* ms since the attempt under way was posted
    \* ---- useAudioCapture hook (src/hooks/useAudioCapture.js, updated) ----
    service,            \* deepgramServiceRef: "none" | "created" | "started"
    handlersRef,        \* handlersRef.current: "none" ({}) | "set"
    epoch,              \* number of cleanup() runs so far
    lastTranscriptRef,  \* lastTranscriptRef.current
    pendingRequestsRef, \* the controllers in pendingRequestsRef (request ids)
    finals,             \* the final transcript events handled, in arrival order
    reqs,               \* every backend request started, in start order
    retryTimers,        \* the pending setTimeout(..., RETRY_DELAY) callbacks
    delivered,          \* the calls of onAnalysisResult, in order
    errors,             \* the calls of onError, in order
    \* ---- server.js: processTextHandler ----
    sPc,          \* "idle" | "upstream" | "responded"
    sBody,        \* req.body?.text of the request being handled
    sResponse,    \* the response sent for it
    sSent,        \* number of responses sent for it so far
    \* ---- the two local fallback builders of the frontend hooks ----
    fText,        \* the text of the failed line
    fNew,         \* what provideFallbackAnalysis handed to onAnalysisResult
    fOld,         \* the fallbackData of the older hook's catch
    \* ---- server.js: buildAnalysisResponse ----
    bParsed,      \* the argument parsed
    bTexts,       \* the arguments rawText and originalText
    bResult,      \* what the call returned, or that it threw
    \* ---- server.js: normalizeSentiment, deriveSentimentLabel ----
    dValue,       \* the argument value (and the argument of deriveSentimentLabel)
    dLabel,       \* the argument label
    dSentiment,   \* what normalizeSentiment returned
    dDerived,     \* what deriveSentimentLabel returned
    \* ---- server.js: parseJsonFromText and the handler lines around it ----
    jPc,          \* "start" | "parsed" | "built"
    jRaw,         \* rawText, the text of the classifier's reply
    jParsed,      \* what parseJsonFromText returned
    jResult,      \* the response built from it
    \* ---- server.js: extractKeywords ----
    kText,        \* the argument text
    kLimit,       \* the argument limit
    kResult,      \* what the call returned
    \* ---- server.js: Config, startServer, GET /api/health ----
    hEnv,         \* process.env when the module is loaded
    hPc,          \* "loaded" | "listening" | "exited"
    hExitCode,    \* the argument of process.exit, NoExit while running
    hAnswers,     \* the answers of GET /api/health so far, in order
    \* ---- App.jsx: the state of App that handleAnalysisResult sets ----
    aNow,         \* what Date.now() returns (ms, from an arbitrary origin)
    aSentiment,   \* sentiment
    aKeywords,    \* keywords
    aPulse,       \* pulse
    aResults,     \* number of handleAnalysisResult calls so far
    aAllKeywords, \* history: the keywords of all results handled so far
    aUnseen,      \* history: a result was handled since the last updateWithProps
    \* ---- AuraCanvas.jsx: the fields of the sketch ----
    pSentiment,   \* p._sentiment
    pPulse,       \* p._pulse
    pPulseEnergy, \* p._pulseEnergy
    pSmoothed,    \* p._smoothed
    pFrameParity, \* p.frameCount modulo 2
    \* ---- App.jsx: the easing effect ----
    eSentiment,   \* sentiment, the target of the easing
    eVisual,      \* visualSentiment
    eChanges,     \* number of changes of sentiment so far
    eFrameParity, \* number of animation frames so far, modulo 2
    \* ---- deepgramRealtime.js and the callbacks registered with it ----
    wService,     \* deepgramServiceRef.current is a service
    wHandlers,    \* handlersRef.current holds the callbacks of start()
    wReady,       \* ws: "none" | "connecting" | "open" | "closed"
    wOnError,     \* the function in ws.onerror: "none" | "report" | "reject"
    wWait,        \* the connection-wait promise: "none" | "pending" | settled
    wAudio,       \* audioContext is set
    wStopping,    \* stop() is suspended at await audioContext.close()
    wStarts,      \* number of start() calls so far
    wCount,       \* number of messages received so far
    wFaults,      \* history: the error events of the sockets, in order
    wReported,    \* the calls of the hook's onError, in order
    wThrown,      \* what the start() calls of the hook threw, in order
    wEvents,      \* history: the events handed to onTranscriptCb, in order
    wTrace,       \* history: the calls of onTranscriptLine and callBackendAPI
    wPartial,     \* App: partial
    wTranscript,  \* App: transcript
    \* ---- createAudioCapture ----
    mRecording,     \* recording
    mPaused,        \* isPaused
    mChunkCallback, \* chunkCallback is a function
    mMediaStream,   \* mediaStream
    mAudioContext,  \* audioContext
    mAudioInput,    \* audioInput
    mProcessor,     \* processor
    mOpenStreams,   \* the streams whose tracks are live
    mOpenContexts,  \* the audio contexts that are not closed
    mWired,         \* the connected processors with an onaudioprocess
    mStartPc,       \* where each start() call is
    mStops,         \* stop() calls suspended at await audioContext.close()
    mCalls,         \* number of API calls and audio events so far
    mOp,            \* the last of them
    mLast,          \* the last call among start() and stop()
    mChunks,        \* number of chunks handed to chunkCallback
    \* ---- createDeepgramRealtime: the resources of one service ----
    rWs,            \* ws
    rAudioContext,  \* audioContext
    rAudioInput,    \* audioInput
    rProcessor,     \* processor
    rStream,        \* stream
    rLive,          \* the streams whose tracks are live
    rSocket,        \* readyState of the socket of each start() call
    rOpenContexts,  \* the audio contexts that are not closed
    rWired,         \* the connected processors with an onaudioprocess
    rPc,            \* where each start() call is
    rTimer,         \* the connection timer of each start() call
    rErr,           \* what each start() call threw
    rStops,         \* outside stop() calls suspended at audioContext.close()
    rStopCalls,     \* number of stop() calls from outside so far
    rResolved       \* number of them that have resolved

gvars == <<gPc, gRetries, gAttempt, gLog, gWaits, gLastError, gOutcome,
          gElapsed>>
ovars == <<service, handlersRef, epoch, lastTranscriptRef,
           pendingRequestsRef, finals, reqs, retryTimers, delivered, errors>>
svars == <<sPc, sBody, sResponse, sSent>>
fvars == <<fText, fNew, fOld>>
bvars == <<bParsed, bTexts, bResult>>
dvars == <<dValue, dLabel, dSentiment, dDerived>>
jvars == <<jPc, jRaw, jParsed, jResult>>
kvars == <<kText, kLimit, kResult>>
hvars == <<hEnv, hPc, hExitCode, hAnswers>>
evars == <<eSentiment, eVisual, eChanges, eFrameParity>>
wvars == <<wService, wHandlers, wReady, wOnError, wWait, wAudio, wStopping,
           wStarts, wCount, wFaults, wReported, wThrown, wEvents, wTrace,
           wPartial, wTranscript>>
mvars == <<mRecording, mPaused, mChunkCallback, mMediaStream, mAudioContext,
           mAudioInput, mProcessor, mOpenStreams, mOpenContexts, mWired,
           mStartPc, mStops, mCalls, mOp, mLast, mChunks>>
rvars == <<rWs, rAudioContext, rAudioInput, rProcessor, rStream, rLive,
           rSocket, rOpenContexts, rWired, rPc, rTimer, rErr, rStops,
           rStopCalls, rResolved>>
cvars == <<aNow, aSentiment, aKeywords, aPulse, aResults, aAllKeywords, aUnseen,
           pSentiment, pPulse, pPulseEnergy, pSmoothed, pFrameParity>>
xvars == <<jvars, kvars, hvars, cvars, evars, wvars, mvars, rvars>>
jOthers == <<kvars, hvars, cvars, evars, wvars, mvars, rvars>>
kOthers == <<jvars, hvars, cvars, evars, wvars, mvars, rvars>>
hOthers == <<jvars, kvars, cvars, evars, wvars, mvars, rvars>>
cOthers == <<jvars, kvars, hvars, evars, wvars, mvars, rvars>>
eOthers == <<jvars, kvars, hvars, cvars, wvars, mvars, rvars>>
wOthers == <<jvars, kvars, hvars, cvars, evars, mvars, rvars>>
mOthers == <<jvars, kvars, hvars, cvars, evars, wvars, rvars>>
rOthers == <<jvars, kvars, hvars, cvars, evars, wvars, mvars>>
pvars == <<fvars, bvars, dvars, xvars>>
vars == <<gvars, ovars, svars, pvars>>

Min(a, b) == IF a < b THEN a ELSE b

RECURSIVE Pow2(_)
Pow2(n) == IF n = 0 THEN 1 ELSE 2 * Pow2(n - 1)

(***************************************************************************)
(* Bounds of the model.                                                    *)
(***************************************************************************)
MaxRetriesArg == 4      \* the retries argument ranges over 0..MaxRetriesArg
ClockStep == 12500      \* the ms between two readings of an attempt's clock
MaxFinals == 3          \* final transcript events per run
MaxEpochs == 1          \* cleanup() runs per run
MaxReqs == 4            \* backend requests started per run

(***************************************************************************)
(* server.js: callGeminiAPI                                                *)
(***************************************************************************)
\* An upstream failure as axios reports it: an HTTP response with a status
\* outside 2xx, or no response at all (timeout, network error).
HttpStatuses == {304, 400, 499, 500, 503}

\* Config.API_TIMEOUT, the timeout option of every axios.post (ms)
API_TIMEOUT == 25000
NoResponse == 0
Failures ==
    [kind : {"http"}, status : HttpStatuses]
        \cup [kind : {"timeout", "network"}, status : {NoResponse}]
Success == [kind |-> "ok", status |-> 200]
NoError == [kind |-> "none", status |-> NoResponse]

\* err?.response?.status >= 400 && err?.response?.status < 500
IsClientErrorOrTimeout(err) ==
    err.kind = "timeout" \/ (err.kind = "http" /\ err.status >= 400 /\ err.status < 500)
IsClientErrorOffByOne(err) ==
    err.kind = "http" /\ err.status > 400 /\ err.status < 500
IsClientError(err) ==
    err.kind = "http" /\ err.status >= 400 /\ err.status < 500

\* Math.min(1000 * Math.pow(2, attempt), 5000)
BackoffDelayUncapped(attempt) == 1000 * Pow2(attempt)
BackoffDelay(attempt) == Min(1000 * Pow2(attempt), 5000)

\* if (attempt < retries) await sleep(delay)
WaitsBeforeRetry(attempt, retries) == attempt < retries

\* for (...; attempt <= retries; attempt++): another turn after attempt
LoopContinues(attempt, retries) == attempt + 1 <= retries

\* lastError?.response?.status || 500
ErrorStatus(err) == IF err.kind = "http" THEN err.status ELSE 500

\* lastError?.response?.data?.error?.message || lastError?.message || "Unknown error"
ErrorMessage(err) ==
    CASE err.kind = "http" -> <<"upstream", err.status>>
      [] err.kind = "none" -> <<"Unknown error", NoResponse>>
      [] OTHER -> <<err.kind, NoResponse>>

\* new GeminiAPIError(message, status, {attempts: retries + 1, ...})
GeminiAPIError(err, retries) ==
    [type |-> "error", status |-> ErrorStatus(err),
     message |-> ErrorMessage(err), attempts |-> retries + 1, attempt |-> 0]

GeminiData(attempt) ==
    [type |-> "data", status |-> 200, message |-> <<"ok", NoResponse>>,
     attempts |-> 0, attempt |-> attempt]

NoOutcome ==
    [type |-> "none", status |-> NoResponse, message |-> <<"", NoResponse>>,
     attempts |-> 0, attempt |-> 0]

GInit ==
    /\ gPc = "idle"
    /\ gRetries = 0
    /\ gAttempt = 0
    /\ gLog = <<>>
    /\ gWaits = <<>>
    /\ gLastError = NoError
    /\ gOutcome = NoOutcome
    /\ gElapsed = 0

\* callGeminiAPI(text, retries): entry up to the first attempt (0 <= retries).
EnterCallGeminiAPI(retries) ==
    /\ gRetries' = retries
    /\ gAttempt' = 0
    /\ gLog' = <<>>
    /\ gWaits' = <<>>
    /\ gLastError' = NoError
    /\ gPc' = "attempting"
    /\ gOutcome' = NoOutcome
    /\ gElapsed' = 0

CallGeminiAPI(retries) ==
    /\ gPc \in {"idle", "returned", "thrown"}
    /\ EnterCallGeminiAPI(retries)
    /\ UNCHANGED <<ovars, svars, pvars>>

\* the post of the attempt under way is still pending: time passes, up to
\* the timeout at which axios rejects it
AttemptClock ==
    /\ gPc = "attempting"
    /\ gElapsed < API_TIMEOUT
    /\ gElapsed' = Min(gElapsed + ClockStep, API_TIMEOUT)
    /\ UNCHANGED <<gPc, gRetries, gAttempt, gLog, gWaits, gLastError, gOutcome>>
    /\ UNCHANGED <<ovars, svars, pvars>>

\* const { data } = await axios.post(...); return data;
AttemptSucceeds ==
    /\ gPc = "attempting"
    /\ gElapsed < API_TIMEOUT
    /\ gLog' = Append(gLog, Success)
    /\ gPc' = "returned"
    /\ gOutcome' = GeminiData(gAttempt)
    /\ UNCHANGED <<gRetries, gAttempt, gWaits, gLastError, gElapsed>>
    /\ UNCHANGED <<ovars, svars, pvars>>

\* catch (err): lastError = err; break on a 4xx; otherwise sleep when another
\* attempt follows; when the loop is over, throw GeminiAPIError.  The
\* failure is a timeout exactly when the post was pending for API_TIMEOUT.
AttemptFails(err) ==
    /\ gPc = "attempting"
    /\ (err.kind = "timeout") <=> (gElapsed = API_TIMEOUT)
    /\ gLog' = Append(gLog, err)
    /\ gLastError' = err
    /\ IF IsClientError(err)
         THEN /\ gPc' = "thrown"
              /\ gOutcome' = GeminiAPIError(err, gRetries)
              /\ UNCHANGED <<gWaits, gAttempt>>
         ELSE IF WaitsBeforeRetry(gAttempt, gRetries)
                THEN /\ gPc' = "waiting"
                     /\ gWaits' = Append(gWaits, BackoffDelay(gAttempt))
                     /\ UNCHANGED <<gOutcome, gAttempt>>
                ELSE IF LoopContinues(gAttempt, gRetries)
                       THEN /\ gPc' = "attempting"
                            /\ gAttempt' = gAttempt + 1
                            /\ UNCHANGED <<gOutcome, gWaits>>
                       ELSE /\ gPc' = "thrown"
                            /\ gOutcome' = GeminiAPIError(err, gRetries)
                            /\ UNCHANGED <<gWaits, gAttempt>>
    /\ gElapsed' = IF gPc' = "attempting" THEN 0 ELSE gElapsed
    /\ UNCHANGED gRetries
    /\ UNCHANGED <<ovars, svars, pvars>>

\* the backoff timer resolves: attempt++ and the loop test
BackoffElapses ==
    /\ gPc = "waiting"
    /\ IF LoopContinues(gAttempt, gRetries)
         THEN /\ gPc' = "attempting"
              /\ gAttempt' = gAttempt + 1
              /\ UNCHANGED gOutcome
         ELSE /\ gPc' = "thrown"
              /\ gOutcome' = GeminiAPIError(gLastError, gRetries)
              /\ UNCHANGED gAttempt
    /\ gElapsed' = IF gPc' = "attempting" THEN 0 ELSE gElapsed
    /\ UNCHANGED <<gRetries, gLog, gWaits, gLastError>>
    /\ UNCHANGED <<ovars, svars, pvars>>

GNext ==
    \/ \E retries \in 0 .. MaxRetriesArg : CallGeminiAPI(retries)
    \/ AttemptClock
    \/ AttemptSucceeds
    \/ \E err \in Failures : AttemptFails(err)
    \/ BackoffElapses

(***************************************************************************)
(* useAudioCapture hook: the request orchestrator                          *)
(***************************************************************************)
MAX_RETRIES == 3
RETRY_DELAY == 2000
BACKEND_TIMEOUT == 20000

\* The texts a final transcript event carries: blank, and two spoken lines.
Texts == {" ", "a", "b"}

\* String.prototype.trim on the texts of the model
Trim(text) == IF text = " " THEN "" ELSE text

\* !text || typeof text !== "string" || text.trim().length === 0
IsEmptyText(text) == text = "" \/ Trim(text) = ""

\* text === lastTranscriptRef.current
IsDuplicate(text, last) == text = last

\* What the backend makes of a request that is still in flight.
Outcomes == {"ok", "unexpected", "successFalse", "http", "network"}

\* onError(new AudioCaptureError(..., type, ...))
ReportError(line, type) ==
    errors' = Append(errors, [line |-> line, type |-> type, epoch |-> epoch])

\* handlersRef.current.onAnalysisResult(data), when the handler is there
Deliver(line, kind) ==
    IF handlersRef = "set"
      THEN delivered' =
               Append(delivered, [line |-> line, kind |-> kind, epoch |-> epoch])
      ELSE UNCHANGED delivered

\* provideFallbackAnalysis(text)
ProvideFallbackAnalysis(line) == Deliver(line, "fallback")

\* setTimeout(() => callBackendAPI(text, retryCount + 1), CONFIG.RETRY_DELAY)
ScheduleRetry(r) ==
    retryTimers' = retryTimers \cup
        {[text |-> reqs[r].text, retryCount |-> reqs[r].retryCount + 1,
          line |-> reqs[r].line, delay |-> RETRY_DELAY]}

\* callBackendAPI(text, retryCount) up to the await of axios.post: the two
\* gates, then the new controller and its request.
CallBackendAPI(text, retryCount, line) ==
    IF IsEmptyText(text) \/ IsDuplicate(text, lastTranscriptRef)
      THEN UNCHANGED <<lastTranscriptRef, pendingRequestsRef, reqs>>
      ELSE /\ lastTranscriptRef' = text
           /\ reqs' = Append(reqs, [text |-> text, retryCount |-> retryCount,
                                    line |-> line, epoch |-> epoch,
                                    st |-> "inflight", result |-> "none",
                                    timer |-> "armed"])
           /\ pendingRequestsRef' = pendingRequestsRef \cup {Len(reqs) + 1}

\* the catch block of callBackendAPI, from the error's class on
HandleFailure(r, kind) ==
    LET retry == reqs[r].retryCount < MAX_RETRIES
        line == reqs[r].line
    IN CASE kind = "cancel" ->
              IF retry
                THEN ScheduleRetry(r) /\ UNCHANGED <<errors, delivered>>
                ELSE /\ ReportError(line, "TIMEOUT_ERROR")
                     /\ ProvideFallbackAnalysis(line)
                     /\ UNCHANGED retryTimers
         [] kind \in {"network", "successFalse"} ->
              IF retry
                THEN ScheduleRetry(r) /\ UNCHANGED <<errors, delivered>>
                ELSE /\ ReportError(line, "NETWORK_ERROR")
                     /\ ProvideFallbackAnalysis(line)
                     /\ UNCHANGED retryTimers
         [] OTHER ->
              /\ ReportError(line, "BACKEND_ERROR")
              /\ ProvideFallbackAnalysis(line)
              /\ UNCHANGED retryTimers

\* a completion that forgets its controller (not the code's behaviour)
SettleLeavesController(r, result) ==
    /\ reqs' = [reqs EXCEPT ![r].st = "done", ![r].result = result,
                            ![r].timer = "cleared"]
    /\ UNCHANGED pendingRequestsRef

\* clearTimeout(timeoutId); pendingRequestsRef.current.delete(controller):
\* the first two statements after the await, in the try and in the catch
Settle(r, result) ==
    /\ reqs' = [reqs EXCEPT ![r].st = "done", ![r].result = result,
                            ![r].timer = "cleared"]
    /\ pendingRequestsRef' = pendingRequestsRef \ {r}

OInit ==
    /\ service = "created"
    /\ handlersRef = "none"
    /\ epoch = 0
    /\ lastTranscriptRef = ""
    /\ pendingRequestsRef = {}
    /\ finals = <<>>
    /\ reqs = <<>>
    /\ retryTimers = {}
    /\ delivered = <<>>
    /\ errors = <<>>

\* start({onTranscriptLine, onAnalysisResult}): the handlers are stored before
\* the service is looked at (without one, start throws); deepgram's start()
\* then succeeds, or fails and stops the service again.
Start(ok) ==
    /\ handlersRef' = "set"
    /\ service' = IF service = "none" THEN "none"
                  ELSE IF ok THEN "started" ELSE "created"
    /\ UNCHANGED <<epoch, lastTranscriptRef, pendingRequestsRef, finals, reqs,
                   retryTimers, delivered, errors>>
    /\ UNCHANGED <<gvars, svars, pvars>>

\* cleanup(): what it does to the refs of the hook
Cleanup ==
    /\ reqs' = [r \in DOMAIN reqs |->
                  IF r \in pendingRequestsRef /\ reqs[r].st = "inflight"
                    THEN [reqs[r] EXCEPT !.st = "aborted"]
                    ELSE reqs[r]]
    /\ pendingRequestsRef' = {}
    /\ lastTranscriptRef' = ""
    /\ handlersRef' = "none"
    /\ epoch' = epoch + 1

\* stop(): await cleanup()
Stop ==
    /\ epoch < MaxEpochs
    /\ Cleanup
    /\ service' = "none"
    /\ UNCHANGED <<finals, retryTimers, delivered, errors>>
    /\ UNCHANGED <<gvars, svars, pvars>>

\* the initialisation effect runs again (a dependency changed): the cleanup
\* it returned, then fresh services
InitializeServices ==
    /\ epoch < MaxEpochs
    /\ Cleanup
    /\ service' = "created"
    /\ UNCHANGED <<finals, retryTimers, delivered, errors>>
    /\ UNCHANGED <<gvars, svars, pvars>>

\* handleTranscript({text, is_final}) for a final event
FinalTranscript(text) ==
    /\ service = "started"
    /\ Len(finals) < MaxFinals
    /\ Len(reqs) < MaxReqs
    /\ finals' = Append(finals, [text |-> text, epoch |-> epoch])
    /\ CallBackendAPI(text, 0, Len(finals) + 1)
    /\ UNCHANGED <<service, handlersRef, epoch, retryTimers, delivered, errors>>
    /\ UNCHANGED <<gvars, svars, pvars>>

\* the BACKEND_TIMEOUT timer of a request fires: controller.abort()
TimeoutFires(r) ==
    /\ reqs[r].st = "inflight"
    /\ reqs[r].timer = "armed"
    /\ reqs' = [reqs EXCEPT ![r].st = "aborted", ![r].timer = "fired"]
    /\ UNCHANGED <<service, handlersRef, epoch, lastTranscriptRef,
                   pendingRequestsRef, finals, retryTimers, delivered, errors>>
    /\ UNCHANGED <<gvars, svars, pvars>>

\* axios.post settles for a request in flight: the try block and its catch
BackendResponds(r, outcome) ==
    /\ reqs[r].st = "inflight"
    /\ Settle(r, outcome)
    /\ CASE outcome = "ok" ->
              Deliver(reqs[r].line, "real") /\ UNCHANGED <<errors, retryTimers>>
         [] outcome = "unexpected" ->
              Deliver(reqs[r].line, "raw") /\ UNCHANGED <<errors, retryTimers>>
         [] OTHER -> HandleFailure(r, outcome)
    /\ UNCHANGED <<service, handlersRef, epoch, lastTranscriptRef, finals>>
    /\ UNCHANGED <<gvars, svars, pvars>>

\* axios.post rejects with a cancellation for an aborted request: the catch
AbortRejects(r) ==
    /\ reqs[r].st = "aborted"
    /\ Settle(r, "cancel")
    /\ HandleFailure(r, "cancel")
    /\ UNCHANGED <<service, handlersRef, epoch, lastTranscriptRef, finals>>
    /\ UNCHANGED <<gvars, svars, pvars>>

\* a retry timer fires: callBackendAPI(text, retryCount + 1)
RetryTimerFires(t) ==
    /\ t \in retryTimers
    /\ Len(reqs) < MaxReqs
    /\ retryTimers' = retryTimers \ {t}
    /\ CallBackendAPI(t.text, t.retryCount, t.line)
    /\ UNCHANGED <<service, handlersRef, epoch, finals, delivered, errors>>
    /\ UNCHANGED <<gvars, svars, pvars>>

ONext ==
    \/ \E ok \in BOOLEAN : Start(ok)
    \/ Stop
    \/ InitializeServices
    \/ \E text \in Texts : FinalTranscript(text)
    \/ \E r \in DOMAIN reqs : TimeoutFires(r)
    \/ \E r \in DOMAIN reqs, outcome \in Outcomes : BackendResponds(r, outcome)
    \/ \E r \in DOMAIN reqs : AbortRejects(r)
    \/ \E t \in retryTimers : RetryTimerFires(t)

(***************************************************************************)
(* JavaScript strings and values.  A string is a sequence of one-character *)
(* strings, so that slicing, splitting, trimming and case folding are      *)
(* computed as the code computes them.  A number is an integer count of    *)
(* 0.00001 (0.5 is 50000, 1 is 100000, 85 is 8500000).                      *)
(***************************************************************************)
Rep(c, n) == [i \in 1..n |-> c]

LowerCaseLetters == <<"a", "b", "c", "d", "e", "f", "g", "h", "i", "j", "k",
    "l", "m", "n", "o", "p", "q", "r", "s", "t", "u", "v", "w", "x", "y",
    "z">>
UpperCaseLetters == <<"A", "B", "C", "D", "E", "F", "G", "H", "I", "J", "K",
    "L", "M", "N", "O", "P", "Q", "R", "S", "T", "U", "V", "W", "X", "Y",
    "Z">>
Digits == {"0", "1", "2", "3", "4", "5", "6", "7", "8", "9"}

\* the characters matched by \w
WordChars ==
    {LowerCaseLetters[i] : i \in 1..26} \cup {UpperCaseLetters[i] : i \in 1..26}
        \cup Digits \cup {"_"}

\* the characters matched by \s, among the characters used here
WhiteSpace == {" ", "\n"}

ToLowerChar(c) ==
    IF \E i \in 1..26 : UpperCaseLetters[i] = c
      THEN LowerCaseLetters[CHOOSE i \in 1..26 : UpperCaseLetters[i] = c]
      ELSE c

\* String.prototype.toLowerCase
ToLowerCase(s) == [i \in 1..Len(s) |-> ToLowerChar(s[i])]

\* .replace(/[^\w\s]/g, " ")
StripPunctuation(s) ==
    [i \in 1..Len(s) |->
        IF s[i] \in WordChars \/ s[i] \in WhiteSpace THEN s[i] ELSE " "]

\* the pieces of s between the characters of seps, empty pieces included:
\* s.split(sep) for a one-character separator
SplitOn(s, seps) ==
    LET cuts == {i \in 1..Len(s) : s[i] \in seps}
        \* the k-th cut, with 0 and Len(s) + 1 as the ends of the string
        Cut(k) == IF k = 0 THEN 0
                  ELSE IF k > Cardinality(cuts) THEN Len(s) + 1
                  ELSE CHOOSE c \in cuts : Cardinality({d \in cuts : d < c}) = k - 1
    IN  [k \in 1..(Cardinality(cuts) + 1) |-> SubSeq(s, Cut(k - 1) + 1, Cut(k) - 1)]

\* .split(" ")
SplitSpace(s) == SplitOn(s, {" "})

\* .split(/\r?\n/), for texts without a carriage return
SplitLines(s) == SplitOn(s, {"\n"})

\* the subsequence of s at the positions in keep
RECURSIVE Pick(_, _, _)
Pick(s, keep, i) ==
    IF i > Len(s) THEN <<>>
    ELSE IF i \in keep THEN <<s[i]>> \o Pick(s, keep, i + 1)
    ELSE Pick(s, keep, i + 1)

\* .split(/\s+/): a run of white space is one separator, so only a leading
\* and a trailing piece can be empty
SplitWhitespace(s) ==
    LET p == SplitOn(s, WhiteSpace)
    IN  Pick(p, {i \in 1..Len(p) : p[i] # <<>> \/ i = 1 \/ i = Len(p)}, 1)

\* String.prototype.trim
TrimString(s) ==
    LET inked == {i \in 1..Len(s) : s[i] \notin WhiteSpace}
    IN  IF inked = {} THEN <<>>
        ELSE SubSeq(s, CHOOSE i \in inked : \A j \in inked : i <= j,
                       CHOOSE i \in inked : \A j \in inked : j <= i)

\* s.slice(0, n)
SliceTo(s, n) == SubSeq(s, 1, Min(n, Len(s)))

\* strs.join(" ")
RECURSIVE JoinWords(_)
JoinWords(ws) ==
    IF Len(ws) = 0 THEN <<>>
    ELSE IF Len(ws) = 1 THEN ws[1]
    ELSE ws[1] \o <<" ">> \o JoinWords(Tail(ws))

\* [...new Set(s)], Array.from(new Set(s)): the first occurrence of every
\* value, in order
RECURSIVE Unique(_)
Unique(s) ==
    IF s = <<>> THEN <<>>
    ELSE LET r == Unique(SubSeq(s, 1, Len(s) - 1))
             last == s[Len(s)]
         IN  IF \E i \in 1..Len(r) : r[i] = last THEN r ELSE Append(r, last)

NonEmpty(w) == Len(w) > 0

\* A JavaScript value: its type tag, its number n (for a number; 1 for
\* true) and its characters s (for a string).
JsUndefined == [t |-> "undefined", n |-> 0, s |-> <<>>]
JsNull == [t |-> "null", n |-> 0, s |-> <<>>]
JsNaN == [t |-> "nan", n |-> 0, s |-> <<>>]
JsFunction == [t |-> "function", n |-> 0, s |-> <<>>]
JsObject == [t |-> "object", n |-> 0, s |-> <<>>]
JsNumber(n) == [t |-> "number", n |-> n, s |-> <<>>]
JsString(s) == [t |-> "string", n |-> 0, s |-> s]
JsBoolean(b) == [t |-> "boolean", n |-> IF b THEN 1 ELSE 0, s |-> <<>>]

\* typeof v === "number"
IsNumberType(v) == v.t \in {"number", "nan"}

\* the truthiness of v
Truthy(v) ==
    CASE v.t \in {"undefined", "null", "nan"} -> FALSE
      [] v.t \in {"number", "boolean"} -> v.n # 0
      [] v.t = "string" -> v.s # <<>>
      [] OTHER -> TRUE

\* v === undefined || v === null, the test of ?? and ?.
Nullish(v) == v.t \in {"undefined", "null"}

\* String(v), for the values used here: a number is a whole number of one
\* digit
ToStr(v) ==
    CASE v.t = "string" -> v.s
      [] v.t = "number" ->
            <<CHOOSE d \in Digits : \E k \in 0..9 :
                  /\ v.n = k * 100000
                  /\ d = <<"0", "1", "2", "3", "4", "5", "6", "7", "8", "9">>[k + 1]>>
      [] v.t = "undefined" ->
            <<"u", "n", "d", "e", "f", "i", "n", "e", "d">>
      [] v.t = "null" -> <<"n", "u", "l", "l">>
      [] v.t = "nan" -> <<"N", "a", "N">>
      [] v.t = "boolean" ->
            IF v.n = 1 THEN <<"t", "r", "u", "e">>
            ELSE <<"f", "a", "l", "s", "e">>
      [] OTHER ->
            <<"[", "o", "b", "j", "e", "c", "t", " ", "O", "b", "j", "e", "c", "t", "]">>

(***************************************************************************)
(* The local fallback result of the two frontend hooks:                    *)
(* provideFallbackAnalysis (hooks/useAudioAnalyzer.js) and the fallbackData *)
(* of the catch in hooks/useAudioCapture.js, the hook App.jsx imports.      *)
(***************************************************************************)
MaxWords == 5           \* words per fallback input text

\* the words the input texts are made of
Vocabulary ==
    { <<"G", "o", "o", "d", ",">>,
      <<"g", "o", "o", "d">>,
      <<"i", "t", "s">>,
      <<"a", "b", "l", "e", "-", "b", "e", "s", "t">>,
      <<"c", "a", "l", "m", ".", "d", "a", "r", "k">>,
      Rep("x", 40) }

FallbackTexts ==
    {JoinWords(ws) : ws \in UNION {[1..n -> Vocabulary] : n \in 1..MaxWords}}

LongerThan3(w) == Len(w) > 3

NoFallback ==
    [model |-> "none", sentiment |-> 0, sentiment_label |-> "", confidence |-> 0,
     keywords |-> <<>>, tone |-> "", short_summary |-> <<>>, error |-> FALSE,
     error_message |-> ""]

\* hooks/useAudioAnalyzer.js, provideFallbackAnalysis: fallbackData
FallbackOfProvide(text) ==
    LET words == SelectSeq(SplitWhitespace(StripPunctuation(ToLowerCase(text))),
                           LongerThan3)
        uniqueWords == SliceTo(Unique(words), 5)
    IN  [model |-> "fallback", sentiment |-> 50000, sentiment_label |-> "neutral",
         confidence |-> 30000, keywords |-> uniqueWords, tone |-> "neutral",
         short_summary |-> SliceTo(text, 100), error |-> TRUE,
         error_message |-> "Using fallback analysis"]

\* hooks/useAudioCapture.js, catch (err): fallbackData
FallbackOfCatch(text, message) ==
    [model |-> "fallback", sentiment |-> 50000, sentiment_label |-> "neutral",
     confidence |-> 50000,
     keywords |-> SliceTo(SelectSeq(SplitSpace(text), LongerThan3), 5),
     tone |-> "neutral", short_summary |-> SliceTo(text, 100), error |-> TRUE,
     error_message |-> message]

\* err.message of the failures the older hook catches
ErrMessages == {"Network Error", "Request failed with status code 500"}

FIdle ==
    /\ fText = <<>>
    /\ fNew = NoFallback
    /\ fOld = NoFallback

FInit ==
    /\ fText \in FallbackTexts
    /\ fNew = NoFallback
    /\ fOld = NoFallback

\* provideFallbackAnalysis(text) with an onAnalysisResult handler registered
ProvideFallbackAnalysisCall ==
    /\ fNew = NoFallback
    /\ fNew' = FallbackOfProvide(fText)
    /\ UNCHANGED <<fText, fOld>>
    /\ UNCHANGED <<gvars, ovars, svars, bvars, dvars, xvars>>

\* the catch of the older hook: onAnalysisResult?.(fallbackData)
CatchFallback(message) ==
    /\ fOld = NoFallback
    /\ fOld' = FallbackOfCatch(fText, message)
    /\ UNCHANGED <<fText, fNew>>
    /\ UNCHANGED <<gvars, ovars, svars, bvars, dvars, xvars>>

FNext ==
    \/ ProvideFallbackAnalysisCall
    \/ \E message \in ErrMessages : CatchFallback(message)

(***************************************************************************)
(* server.js: keyword extraction, field normalizers, response builder      *)
(***************************************************************************)
STOPWORDS ==
    {
      <<"t", "h", "e">>, <<"a", "n", "d">>, <<"a">>, <<"a", "n">>,
      <<"i", "n">>, <<"o", "n">>, <<"a", "t">>, <<"f", "o", "r">>,
      <<"t", "o">>, <<"o", "f">>, <<"i", "s">>, <<"a", "r", "e">>,
      <<"w", "a", "s">>, <<"w", "e", "r", "e">>, <<"i", "t">>, <<"t", "h", "i", "s">>,
      <<"t", "h", "a", "t">>, <<"w", "i", "t", "h">>, <<"a", "s">>, <<"b", "y">>,
      <<"f", "r", "o", "m">>, <<"b", "e">>, <<"h", "a", "v", "e">>, <<"h", "a", "s">>,
      <<"h", "a", "d">>, <<"i">>, <<"w", "e">>, <<"y", "o", "u">>,
      <<"t", "h", "e", "y">>, <<"h", "e">>, <<"s", "h", "e">>, <<"t", "h", "e", "m">>,
      <<"b", "u", "t">>, <<"o", "r">>, <<"n", "o", "t">>, <<"s", "o">>,
      <<"i", "f">>, <<"t", "h", "e", "n">>, <<"t", "h", "e", "r", "e">>,
          <<"t", "h", "e", "i", "r">>,
      <<"o", "u", "r">>, <<"m", "y">>, <<"y", "o", "u", "r">> }

SENTIMENT_THRESHOLDS == [negative |-> 40000, positive |-> 60000]

S_positive == <<"p", "o", "s", "i", "t", "i", "v", "e">>
S_neutral == <<"n", "e", "u", "t", "r", "a", "l">>
S_negative == <<"n", "e", "g", "a", "t", "i", "v", "e">>
S_constructor == <<"c", "o", "n", "s", "t", "r", "u", "c", "t", "o", "r">>
S_proto == <<"_", "_", "p", "r", "o", "t", "o", "_", "_">>

\* SENTIMENT_MAP[key]: the object's own properties, then the members every
\* plain object inherits from Object.prototype; among the inherited names
\* only constructor and __proto__ are all lower case
SentimentMapLookup(key) ==
    CASE key = S_positive -> JsNumber(80000)
      [] key = S_neutral -> JsNumber(50000)
      [] key = S_negative -> JsNumber(20000)
      [] key = S_constructor -> JsFunction
      [] key = S_proto -> JsObject
      [] OTHER -> JsUndefined

\* one entry of the Map freq: [key, weight], the weight in tenths
Bump(freq, key, w) ==
    IF \E i \in 1..Len(freq) : freq[i].key = key
      THEN [i \in 1..Len(freq) |->
               IF freq[i].key = key
                 THEN [key |-> key, weight |-> freq[i].weight + w]
                 ELSE freq[i]]
      ELSE Append(freq, [key |-> key, weight |-> w])

\* the body of the loop over tokens, from index i on
RECURSIVE CountFrom(_, _, _)
CountFrom(tokens, i, freq) ==
    IF i > Len(tokens) THEN freq
    ELSE IF tokens[i] \in STOPWORDS \/ Len(tokens[i]) <= 2
      THEN CountFrom(tokens, i + 1, freq)
    ELSE LET f1 == Bump(freq, tokens[i], 10)
             f2 == IF i + 1 <= Len(tokens) /\ tokens[i + 1] \notin STOPWORDS
                     THEN Bump(f1, tokens[i] \o <<" ">> \o tokens[i + 1], 12)
                     ELSE f1
         IN  CountFrom(tokens, i + 1, f2)

\* (freq.get(bigram) || 0) + 1.2, repeated m times in IEEE doubles, against
\* the exact m * 1.2: the sum is exact for m = 5 and m = 30, above for m = 6
\* and m = 7, below for every other m up to 30 (0.1 + ... is not decimal)
SumRounding(m) ==
    IF m \in {5, 30} THEN 0 ELSE IF m \in {6, 7} THEN 1 ELSE -1

\* the sign of (weight held in the Map) - (weight in tenths); a word counts
\* whole numbers, which are exact
WeightRounding(e) ==
    IF \E i \in 1..Len(e.key) : e.key[i] = " "
      THEN SumRounding(e.weight \div 12)
      ELSE 0

\* b[1] - a[1] <= 0 for the weights of a and b as the Map holds them
HeavierOrEqual(a, b) ==
    \/ a.weight > b.weight
    \/ a.weight = b.weight /\ WeightRounding(a) >= WeightRounding(b)

\* .sort((a, b) => b[1] - a[1]): by weight, heaviest first, entries of equal
\* weight in their earlier order
RECURSIVE SortByWeight(_)
SortByWeight(es) ==
    IF es = <<>> THEN <<>>
    ELSE LET r == SortByWeight(SubSeq(es, 1, Len(es) - 1))
             last == es[Len(es)]
             k == Cardinality({i \in 1..Len(r) : HeavierOrEqual(r[i], last)})
         IN  SubSeq(r, 1, k) \o <<last>> \o SubSeq(r, k + 1, Len(r))

\* extractKeywords(text, limit) for a string text
ExtractKeywords(text, limit) ==
    IF text = <<>> THEN <<>>
    ELSE LET tokens == SelectSeq(
                 SplitWhitespace(ToLowerCase(StripPunctuation(text))), NonEmpty)
             sorted == SliceTo(SortByWeight(CountFrom(tokens, 1, <<>>)), limit)
         IN  [i \in 1..Len(sorted) |-> TrimString(sorted[i].key)]

Clamp(lo, hi, x) == IF x < lo THEN lo ELSE IF x > hi THEN hi ELSE x

\* normalizeSentiment(value, label)
NormalizeSentiment(value, label) ==
    IF IsNumberType(value)
      THEN IF value.t = "nan" THEN JsNaN
           ELSE IF value.n > 100000 /\ value.n <= 10000000
             THEN JsNumber(Clamp(0, 100000, value.n \div 100))
             ELSE JsNumber(Clamp(0, 100000, value.n))
    ELSE IF Truthy(label)
      THEN LET found == SentimentMapLookup(ToLowerCase(ToStr(label)))
           IN  IF Nullish(found) THEN JsNumber(50000) ELSE found
    ELSE JsNumber(50000)

Abs(x) == IF x < 0 THEN -x ELSE x

\* deriveConfidence(sentiment); arithmetic on a value that is not a number
\* gives NaN, and Math.max and Math.min return NaN for NaN
DeriveConfidence(sentiment) ==
    IF sentiment.t = "number"
      THEN JsNumber(Clamp(50000, 99000,
                          40000 + (Abs(sentiment.n - 50000) * 11) \div 10))
      ELSE JsNaN

\* deriveTone(sentiment); every comparison with NaN is false
DeriveTone(sentiment) ==
    IF sentiment.t = "number" /\ sentiment.n >= 70000 THEN S_positive
    ELSE IF sentiment.t = "number" /\ sentiment.n <= 30000 THEN S_negative
    ELSE S_neutral

\* deriveSentimentLabel(sentiment), with both thresholds counted in
DeriveSentimentLabelInclusive(sentiment) ==
    IF sentiment.t = "number" /\ sentiment.n <= SENTIMENT_THRESHOLDS.negative
      THEN S_negative
    ELSE IF sentiment.t = "number" /\ sentiment.n >= SENTIMENT_THRESHOLDS.positive
      THEN S_positive
    ELSE S_neutral

\* deriveSentimentLabel(sentiment)
DeriveSentimentLabel(sentiment) ==
    IF sentiment.t = "number" /\ sentiment.n < SENTIMENT_THRESHOLDS.negative
      THEN S_negative
    ELSE IF sentiment.t = "number" /\ sentiment.n > SENTIMENT_THRESHOLDS.positive
      THEN S_positive
    ELSE S_neutral

\* deriveSummary(parsed, rawText, originalText) for strings rawText and
\* originalText
DeriveSummary(parsed, rawText, originalText) ==
    IF Truthy(parsed.short_summary) THEN ToStr(parsed.short_summary)
    ELSE LET source == IF rawText # <<>> THEN rawText ELSE originalText
             split == SplitLines(source)
             lines == SelectSeq([i \in 1..Len(split) |-> TrimString(split[i])],
                                NonEmpty)
         IN  IF Len(lines) > 0
               THEN SliceTo(JoinWords(SliceTo(lines, 2)), 220)
               ELSE SliceTo(originalText, 220)

\* a toFixed that cuts the digits after the third instead of rounding
ToFixed3Truncating(n) ==
    IF n >= 0 THEN (n \div 100) * 100
    ELSE -((-n \div 100) * 100)

\* Number(x.toFixed(3)): x rounded to three decimals, halves away from zero
ToFixed3(n) ==
    IF n >= 0 THEN ((n + 50) \div 100) * 100
    ELSE -(((-n + 50) \div 100) * 100)

\* parsed?.f for a parsed that is null: every field reads undefined
ParsedNull ==
    [sentiment |-> JsUndefined, sentiment_label |-> JsUndefined,
     confidence |-> JsUndefined, tone |-> JsUndefined,
     isArray |-> FALSE, keywords |-> <<>>, short_summary |-> JsUndefined]

NoData ==
    [sentiment |-> JsUndefined, sentiment_label |-> <<>>,
     confidence |-> JsUndefined, keywords |-> <<>>, tone |-> JsUndefined,
     short_summary |-> <<>>]

NotBuilt == [state |-> "none", data |-> NoData]

\* buildAnalysisResponse(parsed, geminiRaw, rawText, originalText): the data
\* of the response, or the TypeError of confidence.toFixed when confidence
\* is not a number
BuildAnalysisResponse(parsed, rawText, originalText) ==
    LET sentiment == NormalizeSentiment(parsed.sentiment, parsed.sentiment_label)
        confidence == IF Nullish(parsed.confidence)
                        THEN DeriveConfidence(sentiment)
                        ELSE parsed.confidence
        tone == IF Truthy(parsed.tone) THEN parsed.tone
                ELSE JsString(DeriveTone(sentiment))
        short_summary == DeriveSummary(parsed, rawText, originalText)
        given == IF parsed.isArray
                   THEN [i \in 1..Len(parsed.keywords) |-> ToStr(parsed.keywords[i])]
                   ELSE <<>>
        keywordSource == IF short_summary # <<>> THEN short_summary
                         ELSE IF rawText # <<>> THEN rawText
                         ELSE originalText
        keywords == IF Len(given) = 0 THEN ExtractKeywords(keywordSource, 6)
                    ELSE given
        sentiment_label == IF Truthy(parsed.sentiment_label)
                             THEN ToStr(parsed.sentiment_label)
                             ELSE DeriveSentimentLabel(sentiment)
    IN  IF ~IsNumberType(confidence)
          THEN [state |-> "threw", data |-> NoData]
          ELSE [state |-> "returned",
                data |-> [sentiment |-> sentiment,
                          sentiment_label |-> sentiment_label,
                          confidence |-> IF confidence.t = "nan" THEN JsNaN
                                         ELSE JsNumber(ToFixed3(confidence.n)),
                          keywords |-> SliceTo(Unique(keywords), 7),
                          tone |-> tone,
                          short_summary |-> short_summary]]

(***************************************************************************)
(* buildAnalysisResponse applied to one parsed classifier reply            *)
(***************************************************************************)
BuildSentiments ==
    {JsUndefined, JsNumber(85000), JsNumber(15000000), JsNumber(-20000),
     JsString(<<"0", ".", "9">>)}

BuildLabels ==
    {JsUndefined, JsString(<<>>), JsString(S_positive), JsString(<<"N", "e",
        "g", "a", "t", "i", "v", "e">>),
     JsString(<<"m", "i", "x", "e", "d">>), JsString(S_constructor)}

BuildConfidences ==
    {JsUndefined, JsNull, JsNumber(87654), JsNumber(12345), JsNumber(150000),
     JsNumber(-10000), JsString(<<"0", ".", "9">>)}

BuildTones == {JsUndefined, JsString(<<"j", "o", "y", "f", "u", "l">>)}

\* parsed.keywords: not an array, or an array of values
BuildKeywords ==
    { [isArray |-> FALSE, items |-> <<>>],
      [isArray |-> TRUE, items |-> <<>>],
      [isArray |-> TRUE,
       items |-> <<JsString(<<"H", "a", "p", "p", "y">>), JsString(<<"h",
           "a", "p", "p", "y">>), JsString(<<"j", "o", "y">>)>>],
      [isArray |-> TRUE,
       items |-> [i \in 1..8 |-> JsString(<<"k", ToStr(JsNumber(i * 100000))[1]>>)]],
      [isArray |-> TRUE, items |-> <<JsNumber(700000), JsString(<<"s", "e", "v", "e", "n">>)>>] }

BuildSummaries ==
    {JsUndefined, JsString(<<>>), JsString(<<"G", "o", "o", "d", " ", "n",
        "e", "w", "s", " ", "t", "o", "d", "a", "y">>),
     JsString(Rep("s", 221)), JsNumber(700000)}

\* rawText and originalText
BuildTexts ==
    { [rawText |-> <<>>,
       originalText |-> <<"t", "h", "e", " ", "t", "e", "a", "m", " ", "w",
           "o", "n", " ", "t", "h", "e", " ", "b", "i", "g", " ", "g", "a",
           "m", "e", " ", "a", "n", "d", " ", "t", "h", "e", " ", "t", "e",
           "a", "m", " ", "c", "e", "l", "e", "b", "r", "a", "t", "e", "s">>],
      [rawText |-> <<" ", " ", "\n", "G", "r", "e", "a", "t", " ", "r", "e",
          "s", "u", "l", "t", " ", "t", "o", "d", "a", "y", "\n", " ", "s",
          "o", " ", "h", "a", "p", "p", "y", " ", "\n", "t", "h", "i", "r",
          "d", " ", "l", "i", "n", "e">>,
       originalText |-> <<"w", "e", " ", "w", "o", "n">>],
      [rawText |-> Rep("r", 230), originalText |-> <<"w", "e", " ", "w", "o", "n">>],
      [rawText |-> <<" ", "\n", " ", "\n">>, originalText |-> Rep("o", 230)] }

ParsedObjects ==
    {[sentiment |-> se, sentiment_label |-> la, confidence |-> co, tone |-> to,
      isArray |-> kw.isArray, keywords |-> kw.items, short_summary |-> su] :
        se \in BuildSentiments, la \in BuildLabels, co \in BuildConfidences,
        to \in BuildTones, kw \in BuildKeywords, su \in BuildSummaries}

BIdle ==
    /\ bParsed = ParsedNull
    /\ bTexts = [rawText |-> <<>>, originalText |-> <<>>]
    /\ bResult = NotBuilt

BInit ==
    /\ bParsed \in ParsedObjects \cup {ParsedNull}
    /\ bTexts \in BuildTexts
    /\ bResult = NotBuilt

\* const response = buildAnalysisResponse(parsed, geminiRaw, rawText, text)
BuildAnalysisResponseCall ==
    /\ bResult = NotBuilt
    /\ bResult' = BuildAnalysisResponse(bParsed, bTexts.rawText, bTexts.originalText)
    /\ UNCHANGED <<bParsed, bTexts>>
    /\ UNCHANGED <<gvars, ovars, svars, fvars, dvars, xvars>>

BNext == BuildAnalysisResponseCall

(***************************************************************************)
(* normalizeSentiment and deriveSentimentLabel applied to one input        *)
(***************************************************************************)
NormValues ==
    {JsNumber(n) : n \in {-20000, 0, 39999, 40000, 40001, 50000, 59999, 60000,
                          60001, 85000, 100000, 100100, 8500000, 10000000,
                          10000100, 15000000}}
        \cup {JsUndefined, JsNull, JsNaN, JsString(<<"0", ".", "9">>)}

NormLabels ==
    {JsUndefined, JsNull, JsString(<<>>), JsString(S_positive),
     JsString(<<"P", "o", "s", "i", "t", "i", "v", "e">>), JsString(<<"N",
         "E", "U", "T", "R", "A", "L">>), JsString(S_negative),
     JsString(<<"m", "i", "x", "e", "d">>), JsString(S_constructor), JsString(S_proto),
     JsNumber(700000)}

DIdle ==
    /\ dValue = JsUndefined
    /\ dLabel = JsUndefined
    /\ dSentiment = JsUndefined
    /\ dDerived = <<>>

DInit ==
    /\ dValue \in NormValues
    /\ dLabel \in NormLabels
    /\ dSentiment = JsUndefined
    /\ dDerived = <<>>

\* normalizeSentiment(value, label)
NormalizeSentimentCall ==
    /\ dSentiment = JsUndefined
    /\ dSentiment' = NormalizeSentiment(dValue, dLabel)
    /\ UNCHANGED <<dValue, dLabel, dDerived>>
    /\ UNCHANGED <<gvars, ovars, svars, fvars, bvars, xvars>>

\* deriveSentimentLabel(value)
DeriveSentimentLabelCall ==
    /\ dDerived = <<>>
    /\ dDerived' = DeriveSentimentLabel(dValue)
    /\ UNCHANGED <<dValue, dLabel, dSentiment>>
    /\ UNCHANGED <<gvars, ovars, svars, fvars, bvars, xvars>>

DNext ==
    \/ NormalizeSentimentCall
    \/ DeriveSentimentLabelCall

(***************************************************************************)
(* server.js: POST /process_text, from the JSON body parser to the         *)
(* response.  The text of the body is a JavaScript value; a string is kept *)
(* as the lengths of its leading white space, its trimmed core and its     *)
(* trailing white space (field s stays empty), since only lengths decide.  *)
(* One request is handled after the other; gvars is the callGeminiAPI call  *)
(* of the request being handled.                                           *)
(***************************************************************************)
BODY_LIMIT == 98304       \* express.json({ limit: "96kb" })
DEFAULT_RETRIES == 2      \* callGeminiAPI(text, retries = 2)

BodyString(lead, core, trail) ==
    [t |-> "string", n |-> 0, s |-> <<>>, lead |-> lead, core |-> core,
     trail |-> trail]

BodyOther(v) ==
    [t |-> v.t, n |-> v.n, s |-> <<>>, lead |-> 0, core |-> 0, trail |-> 0]

CoreLengths == {0, 1, 2, 3, 4, 9998, 9999, 10000, 10001, 98293, 98294}

\* req.body?.text
BodyTexts ==
    {BodyOther(v) : v \in {JsUndefined, JsNull, JsNumber(0), JsNumber(4200000),
                           JsBoolean(FALSE), JsBoolean(TRUE), JsObject}}
        \cup {BodyString(lead, core, trail) :
                  lead \in 0..1, core \in CoreLengths \ {0}, trail \in 0..1}
        \cup {BodyString(lead, 0, 0) : lead \in 0..1}

\* text.length
StrLength(v) == v.lead + v.core + v.trail

\* text.trim()
TrimBody(v) == [v EXCEPT !.lead = 0, !.trail = 0]

\* !text
BodyFalsy(v) ==
    CASE v.t \in {"undefined", "null", "nan"} -> TRUE
      [] v.t \in {"number", "boolean"} -> v.n = 0
      [] v.t = "string" -> StrLength(v) = 0
      [] OTHER -> FALSE

\* the bytes of the body {"text":...} of a text made of ASCII characters
\* that need no escape
BodyBytes(v) == IF v.t = "string" THEN StrLength(v) + 11 ELSE 20

\* text.length > 10000
ExceedsMaxLength(v) == StrLength(v) > 10000

\* text.length < 3, and the same test with 2 in place of 3
IsVeryShortOffByOne(text) == StrLength(text) < 2
IsVeryShort(text) == StrLength(text) < 3

\* validateTextInput(text): the trimmed text, or the message of the
\* ValidationError thrown (as its words)
ValidateTextInput(text) ==
    IF BodyFalsy(text)
      THEN [ok |-> FALSE, text |-> text,
            message |-> <<"Missing", "'text'", "in", "request", "body">>]
    ELSE IF text.t # "string"
      THEN [ok |-> FALSE, text |-> text,
            message |-> <<"'text'", "must", "be", "a", "string">>]
    ELSE IF StrLength(TrimBody(text)) = 0
      THEN [ok |-> FALSE, text |-> text,
            message |-> <<"'text'", "cannot", "be", "empty">>]
    ELSE IF ExceedsMaxLength(text)
      THEN [ok |-> FALSE, text |-> text,
            message |-> <<"'text'", "exceeds", "maximum", "length", "of",
                          "10,000", "characters">>]
    ELSE [ok |-> TRUE, text |-> TrimBody(text), message |-> <<>>]

\* the characters of a validated text
TextOf(text) == Rep("t", text.core)

NoErrorBody == [message |-> <<>>, type |-> "", statusCode |-> 0]

\* error.statusCode of an error that has none (a TypeError of the runtime)
NoStatusCode == NoResponse

\* what Date.now() - startTime comes to (ms)
ProcessingTimes == {0, 1500}

NoMetadata == [timestamp |-> FALSE, processing_time |-> JsUndefined]

\* metadata: {timestamp: new Date().toISOString(), processing_time: null}
BuilderMetadata == [timestamp |-> TRUE, processing_time |-> JsNull]

\* response.metadata.processing_time = Date.now() - startTime
KeepProcessingTime(metadata, ms) == metadata
SetProcessingTime(metadata, ms) ==
    [metadata EXCEPT !.processing_time = JsNumber(ms * 100000)]

NoServerResponse ==
    [status |-> 0, success |-> FALSE, error |-> NoErrorBody, data |-> NoData,
     metadata |-> NoMetadata, note |-> ""]

\* statusCode: error.statusCode || 500 (buildErrorResponse)
ErrorStatusCodeRaw(statusCode) == statusCode
ErrorStatusCode(statusCode) ==
    IF statusCode = NoStatusCode THEN 500 ELSE statusCode

\* res.status(error.statusCode || 500)
ResponseStatus(statusCode) ==
    IF statusCode = NoStatusCode THEN 500 ELSE statusCode

\* res.status(error.statusCode || 500).json(buildErrorResponse(error, req.id))
ErrorResponse(name, statusCode, message) ==
    [status |-> ResponseStatus(statusCode), success |-> FALSE,
     error |-> [message |-> message, type |-> name,
                statusCode |-> ErrorStatusCode(statusCode)],
     data |-> NoData, metadata |-> NoMetadata, note |-> ""]

\* the response of the special case "very short text"
ShortTextResponse(text, ms) ==
    [status |-> 200, success |-> TRUE, error |-> NoErrorBody,
     metadata |-> [timestamp |-> TRUE, processing_time |-> JsNumber(ms * 100000)],
     data |-> [sentiment |-> JsNumber(50000), sentiment_label |-> S_neutral,
               confidence |-> JsNumber(50000), keywords |-> <<>>,
               tone |-> JsString(S_neutral), short_summary |-> TextOf(text)],
     note |-> "Text too short for meaningful analysis"]

\* res.json(response) for the response buildAnalysisResponse returned
AnalysisResponse(data, ms) ==
    [status |-> 200, success |-> TRUE, error |-> NoErrorBody, data |-> data,
     metadata |-> SetProcessingTime(BuilderMetadata, ms), note |-> ""]

\* what the classifier replied, as parseJsonFromText hands it to the
\* builder: rawText and parsed
ServerReplies ==
    { [rawText |-> <<"{", "}">>, parsed |-> ParsedNull],
      [rawText |-> <<"{", "c", "}">>,
       parsed |-> [ParsedNull EXCEPT !.confidence = JsString(<<"0", ".", "9">>)]],
      [rawText |-> <<"{", "s", "}">>,
       parsed |-> [ParsedNull EXCEPT !.sentiment = JsNumber(85000),
                                     !.sentiment_label = JsString(S_positive),
                                     !.confidence = JsNumber(90000)]] }

SInit ==
    /\ sPc = "idle"
    /\ sBody = BodyOther(JsUndefined)
    /\ sResponse = NoServerResponse
    /\ sSent = 0

\* no callGeminiAPI call belongs to the request
NoGeminiCall ==
    /\ gPc' = "idle"
    /\ gRetries' = 0
    /\ gAttempt' = 0
    /\ gLog' = <<>>
    /\ gWaits' = <<>>
    /\ gLastError' = NoError
    /\ gOutcome' = NoOutcome
    /\ gElapsed' = 0

\* A POST /process_text request arrives: express.json reads the body, then
\* processTextHandler runs up to its first await or to its response.
PostProcessText(body, ms) ==
    /\ sPc \in {"idle", "responded"}
    /\ sBody' = body
    /\ IF BodyBytes(body) > BODY_LIMIT
         THEN \* the parser fails with 413; the global error handler answers
              /\ sResponse' = ErrorResponse("PayloadTooLargeError", 413,
                                  <<"request", "entity", "too", "large">>)
              /\ sPc' = "responded"
              /\ NoGeminiCall
         ELSE LET v == ValidateTextInput(body)
              IN  IF ~v.ok
                    THEN /\ sResponse' = ErrorResponse("ValidationError", 400, v.message)
                         /\ sPc' = "responded"
                         /\ NoGeminiCall
                  ELSE IF IsVeryShort(v.text)
                    THEN /\ sResponse' = ShortTextResponse(v.text, ms)
                         /\ sPc' = "responded"
                         /\ NoGeminiCall
                  ELSE /\ sResponse' = NoServerResponse
                       /\ sPc' = "upstream"
                       /\ EnterCallGeminiAPI(DEFAULT_RETRIES)
    /\ sSent' = IF sPc' = "responded" THEN 1 ELSE 0
    /\ UNCHANGED <<ovars, pvars>>

\* a step of the callGeminiAPI call the handler awaits
UpstreamStep ==
    /\ sPc = "upstream"
    /\ \/ AttemptClock
       \/ AttemptSucceeds
       \/ \E err \in Failures : AttemptFails(err)
       \/ BackoffElapses

\* callGeminiAPI threw: catch (error) of the handler
HandlerCatches ==
    /\ sPc = "upstream"
    /\ gPc = "thrown"
    /\ sResponse' = ErrorResponse("GeminiAPIError", gOutcome.status,
                        <<"Gemini", "API", "call", "failed:", gOutcome.message[1]>>)
    /\ sPc' = "responded"
    /\ sSent' = sSent + 1
    /\ UNCHANGED sBody
    /\ UNCHANGED <<gvars, ovars, pvars>>

\* callGeminiAPI returned: the reply is parsed, the response built and
\* sent; a TypeError of the builder is caught and answered with 500
HandlerBuilds(reply, ms) ==
    /\ sPc = "upstream"
    /\ gPc = "returned"
    /\ LET built == BuildAnalysisResponse(reply.parsed, reply.rawText,
                                          TextOf(sBody))
       IN  sResponse' =
               IF built.state = "threw"
                 THEN ErrorResponse("TypeError", NoStatusCode,
                          <<"confidence.toFixed", "is", "not", "a", "function">>)
                 ELSE AnalysisResponse(built.data, ms)
    /\ sPc' = "responded"
    /\ sSent' = sSent + 1
    /\ UNCHANGED sBody
    /\ UNCHANGED <<gvars, ovars, pvars>>

SNext ==
    \/ \E body \in BodyTexts, ms \in ProcessingTimes : PostProcessText(body, ms)
    \/ UpstreamStep
    \/ HandlerCatches
    \/ \E reply \in ServerReplies, ms \in ProcessingTimes :
           HandlerBuilds(reply, ms)

(***************************************************************************)
(* server.js: parseJsonFromText.  JSON.parse is modelled on the texts the  *)
(* model draws: objects, arrays, strings without escapes, decimal numbers  *)
(* without exponent, true, false and null.  A number keeps five decimals.  *)
(***************************************************************************)
SetMin(S) == CHOOSE x \in S : \A y \in S : x <= y
SetMax(S) == CHOOSE x \in S : \A y \in S : x >= y

\* the character at position i, "" past the end of the text
At(s, i) == IF i \in 1..Len(s) THEN s[i] ELSE ""

\* the first position from i on that holds no whitespace
SkipWs(s, i) ==
    LET solid == {j \in i..Len(s) : s[j] \notin WhiteSpace}
    IN  IF solid = {} THEN Len(s) + 1 ELSE SetMin(solid)

DigitValue(c) == CHOOSE d \in 0..9 : <<"0", "1", "2", "3", "4", "5", "6", "7", "8", "9">>[d + 1] = c

RECURSIVE DigitsValue(_)
DigitsValue(ds) ==
    IF ds = <<>> THEN 0
    ELSE 10 * DigitsValue(SubSeq(ds, 1, Len(ds) - 1)) + DigitValue(ds[Len(ds)])

AllDigits(ds) == \A i \in 1..Len(ds) : ds[i] \in Digits

JsonScalar(t, n, s) == [t |-> t, n |-> n, s |-> s, items |-> <<>>, members |-> <<>>]
JsonFail == [ok |-> FALSE, next |-> 0, val |-> JsonScalar("undefined", 0, <<>>)]
JsonOk(next, val) == [ok |-> TRUE, next |-> next, val |-> val]

\* a string: from the quote at i to the next quote, no line break inside
ParseString(s, i) ==
    LET quotes == {j \in (i + 1)..Len(s) : s[j] = "\""}
    IN  IF At(s, i) # "\"" \/ quotes = {} THEN JsonFail
        ELSE LET j == SetMin(quotes)
                 body == SubSeq(s, i + 1, j - 1)
             IN  IF \E k \in 1..Len(body) : body[k] = "\n" THEN JsonFail
                 ELSE JsonOk(j + 1, JsonScalar("string", 0, body))

\* a number: -? (0 | [1-9][0-9]*) (. [0-9]+)?
ParseNumber(s, i) ==
    LET stops == {j \in i..Len(s) : s[j] \notin Digits \cup {"-", "."}}
        end == IF stops = {} THEN Len(s) + 1 ELSE SetMin(stops)
        negative == At(s, i) = "-"
        lexeme == SubSeq(s, IF negative THEN i + 1 ELSE i, end - 1)
        dots == {j \in 1..Len(lexeme) : lexeme[j] = "."}
        whole == IF dots = {} THEN lexeme ELSE SubSeq(lexeme, 1, SetMin(dots) - 1)
        frac == IF dots = {} THEN <<>>
                ELSE SubSeq(lexeme, SetMin(dots) + 1, Len(lexeme))
        wellFormed ==
            /\ whole # <<>>
            /\ AllDigits(whole)
            /\ whole[1] = "0" => Len(whole) = 1
            /\ dots # {} => frac # <<>> /\ AllDigits(frac)
        frac5 == [k \in 1..5 |-> IF k <= Len(frac) THEN frac[k] ELSE "0"]
        magnitude == DigitsValue(whole) * 100000 + DigitsValue(frac5)
    IN  IF ~wellFormed THEN JsonFail
        ELSE JsonOk(end, JsonScalar("number",
                                    IF negative THEN 0 - magnitude ELSE magnitude,
                                    <<>>))

ParseLiteral(s, i, word, val) ==
    IF SubSeq(s, i, Min(Len(s), i + Len(word) - 1)) = word
      THEN JsonOk(i + Len(word), val)
      ELSE JsonFail

RECURSIVE ParseValue(_, _)
RECURSIVE ParseElements(_, _, _)
RECURSIVE ParseMembers(_, _, _)

\* the elements of an array from position i on, after those in acc
ParseElements(s, i, acc) ==
    LET v == ParseValue(s, i)
        d == IF v.ok THEN SkipWs(s, v.next) ELSE 0
    IN  IF ~v.ok THEN JsonFail
        ELSE IF At(s, d) = "]"
          THEN JsonOk(d + 1, [t |-> "array", n |-> 0, s |-> <<>>,
                              items |-> Append(acc, v.val), members |-> <<>>])
        ELSE IF At(s, d) = ","
          THEN ParseElements(s, SkipWs(s, d + 1), Append(acc, v.val))
        ELSE JsonFail

\* the members of an object from position i on, after those in acc
ParseMembers(s, i, acc) ==
    LET k == ParseString(s, i)
        c == IF k.ok THEN SkipWs(s, k.next) ELSE 0
        v == IF k.ok /\ At(s, c) = ":" THEN ParseValue(s, SkipWs(s, c + 1))
             ELSE JsonFail
        d == IF v.ok THEN SkipWs(s, v.next) ELSE 0
        member == [key |-> k.val.s, val |-> v.val]
    IN  IF ~v.ok THEN JsonFail
        ELSE IF At(s, d) = "}"
          THEN JsonOk(d + 1, [t |-> "object", n |-> 0, s |-> <<>>,
                              items |-> <<>>, members |-> Append(acc, member)])
        ELSE IF At(s, d) = ","
          THEN ParseMembers(s, SkipWs(s, d + 1), Append(acc, member))
        ELSE JsonFail

ParseValue(s, i) ==
    LET c == At(s, i)
        inner == SkipWs(s, i + 1)
    IN  CASE c = "\"" -> ParseString(s, i)
          [] c \in Digits \cup {"-"} -> ParseNumber(s, i)
          [] c = "{" ->
                IF At(s, inner) = "}"
                  THEN JsonOk(inner + 1, [t |-> "object", n |-> 0, s |-> <<>>,
                                          items |-> <<>>, members |-> <<>>])
                  ELSE ParseMembers(s, inner, <<>>)
          [] c = "[" ->
                IF At(s, inner) = "]"
                  THEN JsonOk(inner + 1, [t |-> "array", n |-> 0, s |-> <<>>,
                                          items |-> <<>>, members |-> <<>>])
                  ELSE ParseElements(s, inner, <<>>)
          [] c = "t" -> ParseLiteral(s, i, <<"t", "r", "u", "e">>,
                                     JsonScalar("boolean", 1, <<>>))
          [] c = "f" -> ParseLiteral(s, i, <<"f", "a", "l", "s", "e">>,
                                     JsonScalar("boolean", 0, <<>>))
          [] c = "n" -> ParseLiteral(s, i, <<"n", "u", "l", "l">>,
                                     JsonScalar("null", 0, <<>>))
          [] OTHER -> JsonFail

\* JSON.parse(text): the value, or the SyntaxError (ok = FALSE)
JsonParse(text) ==
    LET v == ParseValue(text, SkipWs(text, 1))
    IN  IF v.ok /\ SkipWs(text, v.next) = Len(text) + 1 THEN v ELSE JsonFail

\* the positions of s in ascending order that are in keep
KeepPositions(s, keep) ==
    [n \in 1..Cardinality(keep) |->
        s[CHOOSE i \in keep : Cardinality({j \in keep : j <= i}) = n]]

\* s.replace(/,\s*X/g, "X") for a closing bracket X
StripCommaBefore(s, closer) ==
    LET Matched(k) == s[k] = "," /\ At(s, SkipWs(s, k + 1)) = closer
        dropped == {i \in 1..Len(s) :
                      \E k \in 1..i : Matched(k) /\ i < SkipWs(s, k + 1)}
    IN  KeepPositions(s, (1..Len(s)) \ dropped)

\* s.replace(/'/g, '"')
ReplaceSingleQuotes(s) == [i \in 1..Len(s) |-> IF s[i] = "'" THEN "\"" ELSE s[i]]

\* rawText.match(/\{[\s\S]*\}/): the text from the first { to the last }
BraceSpanLazy(rawText) ==
    LET opens == {i \in 1..Len(rawText) : rawText[i] = "{"}
        closes == IF opens = {} THEN {}
                  ELSE {j \in (SetMin(opens) + 1)..Len(rawText) : rawText[j] = "}"}
    IN  IF closes = {} THEN [found |-> FALSE, text |-> <<>>]
        ELSE [found |-> TRUE,
              text |-> SubSeq(rawText, SetMin(opens), SetMin(closes))]
BraceSpan(rawText) ==
    LET opens == {i \in 1..Len(rawText) : rawText[i] = "{"}
        closes == IF opens = {} THEN {}
                  ELSE {j \in (SetMin(opens) + 1)..Len(rawText) : rawText[j] = "}"}
    IN  IF closes = {} THEN [found |-> FALSE, text |-> <<>>]
        ELSE [found |-> TRUE,
              text |-> SubSeq(rawText, SetMin(opens), SetMax(closes))]

CleanJson(text) ==
    ReplaceSingleQuotes(StripCommaBefore(StripCommaBefore(text, "}"), "]"))

JsonNull == [ok |-> FALSE, val |-> JsonScalar("null", 0, <<>>)]

\* parseJsonFromText(rawText): ok with the parsed object, or null
ParseJsonFromText(rawText) ==
    LET match == BraceSpan(rawText)
        strict == JsonParse(match.text)
        second == JsonParse(CleanJson(match.text))
    IN  IF rawText = <<>> \/ ~match.found THEN JsonNull
        ELSE IF strict.ok THEN [ok |-> TRUE, val |-> strict.val]
        ELSE IF second.ok THEN [ok |-> TRUE, val |-> second.val]
        ELSE JsonNull

(***************************************************************************)
(* processTextHandler, lines 503-514: the reply text is parsed and the     *)
(* response is built from what the parse returned                          *)
(***************************************************************************)
ConfigMODEL == "gemini-2.5-flash"

\* parsed?.name of the object JSON.parse returned (the last member wins)
JsonField(obj, name) ==
    LET hits == {i \in 1..Len(obj.members) : obj.members[i].key = name}
    IN  IF hits = {} THEN JsonScalar("undefined", 0, <<>>)
        ELSE obj.members[SetMax(hits)].val

JsValueOf(v) ==
    IF v.t \in {"array", "object"} THEN JsObject
    ELSE [t |-> v.t, n |-> v.n, s |-> v.s]

\* the fields buildAnalysisResponse reads from parsed
ParsedFields(obj) ==
    LET keywords == JsonField(obj, <<"k", "e", "y", "w", "o", "r", "d", "s">>)
    IN  [sentiment |-> JsValueOf(JsonField(obj, <<"s", "e", "n", "t", "i", "m", "e", "n", "t">>)),
         sentiment_label |-> JsValueOf(JsonField(obj, <<"s", "e", "n", "t", "i", "m", "e", "n", "t", "_", "l", "a",
      "b", "e", "l">>)),
         confidence |-> JsValueOf(JsonField(obj, <<"c", "o", "n", "f", "i", "d", "e", "n", "c", "e">>)),
         tone |-> JsValueOf(JsonField(obj, <<"t", "o", "n", "e">>)),
         isArray |-> keywords.t = "array",
         keywords |-> [i \in 1..Len(keywords.items) |-> JsValueOf(keywords.items[i])],
         short_summary |-> JsValueOf(JsonField(obj, <<"s", "h", "o", "r", "t", "_", "s", "u", "m", "m", "a", "r", "y">>))]

\* the text of the request being answered
RequestText == <<"I", " ", "a", "m", " ", "t", "h", "r", "i", "l", "l", "e",
      "d", " ", "a", "b", "o", "u", "t", " ", "t", "h", "e", " ",
      "l", "a", "u", "n", "c", "h">>

\* ---- the replies the classifier is drawn to give ----
QuoteStyles == {"double", "single", "none"}

Quoted(style, s) ==
    CASE style = "double" -> <<"\"">> \o s \o <<"\"">>
      [] style = "single" -> <<"'">> \o s \o <<"'">>
      [] OTHER -> s

ReplyPrefixes == {<<>>, <<"S", "u", "r", "e", "!", " ">>}
ReplySuffixes == {<<>>, <<" ", "D", "o", "n", "e", ".">>}
TrailingCommas == {<<>>, <<",">>, <<",", " ">>}
SentimentTexts == {<<"0", ".", "2">>, <<"0", ".", "9">>}

\* a reply in the manner of  Sure! {sentiment: 0.2, 'tone':'sad',}
LooseReply(prefix, keyStyle, stringStyle, sentiment, comma, suffix) ==
    prefix \o <<"{">> \o Quoted(keyStyle, <<"s", "e", "n", "t", "i", "m", "e", "n", "t">>) \o <<":", " ">>
           \o sentiment \o <<",", " ">> \o Quoted(keyStyle, <<"t", "o", "n", "e">>) \o <<":">>
           \o Quoted(stringStyle, <<"s", "a", "d">>) \o comma \o <<"}">> \o suffix

LooseReplies ==
    {LooseReply(p, k, q, v, c, x) :
        p \in ReplyPrefixes, k \in QuoteStyles, q \in {"double", "single"},
        v \in SentimentTexts, c \in TrailingCommas, x \in ReplySuffixes}

FullSentiments == {<<"0", ".", "9">>, <<"0", ".", "2">>, <<"0", ".", "5">>}
FullLabels == {<<"p", "o", "s", "i", "t", "i", "v", "e">>, <<"n", "e", "u", "t", "r", "a", "l">>, <<"n", "e", "g", "a", "t", "i", "v", "e">>}
FullConfidences == {<<"0", ".", "9", "5">>, <<"0", ".", "8", "7", "6", "6">>, <<"1">>, <<"0">>}
FullKeywords == {<<"[", "\"", "t", "h", "r", "i", "l", "l", "e", "d", "\"", "]">>, <<"[", "\"", "l", "a", "u", "n", "c", "h", "\"", ",", " ", "\"",
      "T", "e", "a", "m", "\"", ",", " ", "\"", "b", "i", "g",
      " ", "w", "i", "n", "\"", "]">>, <<"[", "]">>}
FullPrefixes == {<<>>, <<"H", "e", "r", "e", " ", "i", "s", " ", "t", "h", "e", " ",
      "a", "n", "a", "l", "y", "s", "i", "s", ":", "\n">>}

\* a reply that is well-formed JSON with all six fields
FullReply(prefix, sentiment, label, confidence, keywords) ==
    prefix \o <<"{", "\"", "s", "e", "n", "t", "i", "m", "e", "n", "t", "\"",
      ":">> \o sentiment
           \o <<",", "\"", "s", "e", "n", "t", "i", "m", "e", "n", "t", "_",
      "l", "a", "b", "e", "l", "\"", ":", "\"">> \o label
           \o <<"\"", ",", "\"", "c", "o", "n", "f", "i", "d", "e", "n", "c",
      "e", "\"", ":">> \o confidence
           \o <<",", "\"", "k", "e", "y", "w", "o", "r", "d", "s", "\"", ":">> \o keywords
           \o <<",", "\"", "t", "o", "n", "e", "\"", ":", "\"", "j", "o", "y",
      "f", "u", "l", "\"", ",", "\"", "s", "h", "o", "r", "t",
      "_", "s", "u", "m", "m", "a", "r", "y", "\"", ":", "\"",
      "S", "p", "e", "a", "k", "e", "r", " ", "i", "s", " ", "t",
      "h", "r", "i", "l", "l", "e", "d", ".", "\"", "}">>

FullReplies ==
    {FullReply(p, s, l, c, k) :
        p \in FullPrefixes, s \in FullSentiments, l \in FullLabels,
        c \in FullConfidences, k \in FullKeywords}

\* replies without a span, or whose span no repair makes JSON: two
\* objects in one text, no braces, braces the wrong way round, ...
OtherReplies ==
    {<<"{", "\"", "t", "o", "n", "e", "\"", ":", " ", "\"", "c", "a", "l",
      "m", "\"", "}", " ", "o", "r", " ", "{", "\"", "t", "o", "n", "e",
      "\"", ":", " ", "\"", "s", "a", "d", "\"", "}">>,
     <<"I", " ", "c", "a", "n", "n", "o", "t", " ", "a", "n", "a",
      "l", "y", "s", "e", " ", "t", "h", "i", "s", ".">>, <<"}", " ", "n", "o", "t", "h", "i", "n", "g", " ", "{">>, <<"{", "}">>,
     <<"{", "\"", "t", "o", "n", "e", "\"", ":", " ", "\"", "s", "a",
      "d", "\"", ",", " ", "\"", "s", "h", "o", "r", "t", "_",
      "s", "u", "m", "m", "a", "r", "y", "\"", ":", " ", "\"",
      "I", "t", "'", "s", " ", "o", "v", "e", "r", "\"", ",", "}">>}

JsonReplies == LooseReplies \cup FullReplies \cup OtherReplies

NotParsed == [ok |-> FALSE, val |-> JsonScalar("undefined", 0, <<>>)]
NoResult == [state |-> "none", data |-> NoData, model |-> ""]

JIdle ==
    /\ jPc = "built"
    /\ jRaw = <<>>
    /\ jParsed = NotParsed
    /\ jResult = NoResult

JInit ==
    /\ jPc = "start"
    /\ jRaw \in JsonReplies
    /\ jParsed = NotParsed
    /\ jResult = NoResult

\* let parsed = parseJsonFromText(rawText)
ParseJsonFromTextCall ==
    /\ jPc = "start"
    /\ jParsed' = ParseJsonFromText(jRaw)
    /\ jPc' = "parsed"
    /\ UNCHANGED <<jRaw, jResult>>
    /\ UNCHANGED <<gvars, ovars, svars, fvars, bvars, dvars, jOthers>>

\* if (!parsed) parsed = geminiRaw?.structuredOutput || geminiRaw?.structured_output
\* (a generateContent reply has neither), then buildAnalysisResponse
BuildFromParsed ==
    /\ jPc = "parsed"
    /\ LET parsed == IF jParsed.ok THEN ParsedFields(jParsed.val) ELSE ParsedNull
           built == BuildAnalysisResponse(parsed, jRaw, RequestText)
       IN  jResult' = [state |-> built.state, data |-> built.data,
                       model |-> ConfigMODEL]
    /\ jPc' = "built"
    /\ UNCHANGED <<jRaw, jParsed>>
    /\ UNCHANGED <<gvars, ovars, svars, fvars, bvars, dvars, jOthers>>

JNext == ParseJsonFromTextCall \/ BuildFromParsed

(***************************************************************************)
(* extractKeywords applied to one text                                     *)
(***************************************************************************)
MaxKeywordTokens == 4

KeywordVocabulary ==
    {<<"t", "h", "e">>, <<"C", "a", "t">>, <<"c", "a", "t">>, <<"s", "a", "t">>, <<"u", "p">>, <<"m", "a", "t", ".">>}

\* "big win" ten times, then "win" twice
TenBigrams ==
    <<"b", "i", "g", " ", "w", "i", "n", " ", "b", "i", "g", " ",
      "w", "i", "n", " ", "b", "i", "g", " ", "w", "i", "n", " ",
      "b", "i", "g", " ", "w", "i", "n", " ", "b", "i", "g", " ",
      "w", "i", "n", " ", "b", "i", "g", " ", "w", "i", "n", " ",
      "b", "i", "g", " ", "w", "i", "n", " ", "b", "i", "g", " ",
      "w", "i", "n", " ", "b", "i", "g", " ", "w", "i", "n", " ",
      "b", "i", "g", " ", "w", "i", "n", " ", "w", "i", "n", " ",
      "w", "i", "n">>

KeywordTexts ==
    {JoinWords(ws) :
        ws \in UNION {[1..n -> KeywordVocabulary] : n \in 0..MaxKeywordTokens}}
    \cup {<<"t", "h", "e", " ", "c", "a", "t", " ", "s", "a", "t", " ",
      "c", "a", "t", " ", "s", "a", "t", " ", "o", "n", " ", "t",
      "h", "e", " ", "m", "a", "t">>, TenBigrams}

KeywordLimits == {0, 1, 2, 6}

NoKeywords == [state |-> "none", list |-> <<>>]

KIdle ==
    /\ kText = <<>>
    /\ kLimit = 6
    /\ kResult = [state |-> "returned", list |-> <<>>]

KInit ==
    /\ kText \in KeywordTexts
    /\ kLimit \in KeywordLimits
    /\ kResult = NoKeywords

\* extractKeywords(text, limit)
ExtractKeywordsCall ==
    /\ kResult = NoKeywords
    /\ kResult' = [state |-> "returned", list |-> ExtractKeywords(kText, kLimit)]
    /\ UNCHANGED <<kText, kLimit>>
    /\ UNCHANGED <<gvars, ovars, svars, fvars, bvars, dvars, kOthers>>

KNext == ExtractKeywordsCall

(***************************************************************************)
(* server.js: Config, startServer, GET /api/health, the signal handlers    *)
(***************************************************************************)
MaxHealthRequests == 3

\* what process.env holds for a variable: nothing, "" or a value
EnvKeys == {JsUndefined, JsString(<<>>), JsString(<<"k", "e", "y", "-", "1">>)}
EnvModes == {JsUndefined, JsString(<<"p", "r", "o", "d", "u", "c", "t", "i", "o", "n">>), JsString(<<"t", "e", "s", "t">>)}

Environments ==
    [GOOGLE_API_KEY : EnvKeys, GEMINI_API_KEY : EnvKeys, NODE_ENV : EnvModes]

\* static API_KEY = process.env.GOOGLE_API_KEY || process.env.GEMINI_API_KEY
ConfigAPIKEY(env) ==
    IF Truthy(env.GOOGLE_API_KEY) THEN env.GOOGLE_API_KEY ELSE env.GEMINI_API_KEY

\* static NODE_ENV = process.env.NODE_ENV || "development"
ConfigNODEENV(env) ==
    IF Truthy(env.NODE_ENV) THEN env.NODE_ENV ELSE JsString(<<"d", "e", "v", "e", "l", "o", "p", "m", "e", "n", "t">>)

\* Config.validate()
ConfigValidate(env) == Truthy(ConfigAPIKEY(env))

\* a handler that answers 200 whatever the key
HealthStatusAlwaysOk(apiKey) == 200

\* isHealthy ? 200 : 503, with isHealthy = Config.API_KEY && true
HealthStatus(apiKey) == IF Truthy(apiKey) THEN 200 ELSE 503

\* the answer of GET /api/health
HealthAnswer(env) ==
    [status |-> HealthStatus(ConfigAPIKEY(env)),
     healthy |-> Truthy(ConfigAPIKEY(env)),
     api_key |-> Truthy(ConfigAPIKEY(env)),
     environment |-> ConfigNODEENV(env)]

NoExit == -1

HIdle ==
    /\ hEnv = [GOOGLE_API_KEY |-> JsUndefined, GEMINI_API_KEY |-> JsUndefined,
               NODE_ENV |-> JsUndefined]
    /\ hPc = "exited"
    /\ hExitCode = 1
    /\ hAnswers = <<>>

HInit ==
    /\ hEnv \in Environments
    /\ hPc = "loaded"
    /\ hExitCode = NoExit
    /\ hAnswers = <<>>

\* startServer()
StartServer ==
    /\ hPc = "loaded"
    /\ IF ~ConfigValidate(hEnv)
         THEN hPc' = "exited" /\ hExitCode' = 1
         ELSE hPc' = "listening" /\ UNCHANGED hExitCode
    /\ UNCHANGED <<hEnv, hAnswers>>
    /\ UNCHANGED <<gvars, ovars, svars, fvars, bvars, dvars, hOthers>>

\* app.get("/api/health", ...), for a request the listening server accepts
GetHealth ==
    /\ hPc = "listening"
    /\ Len(hAnswers) < MaxHealthRequests
    /\ hAnswers' = Append(hAnswers, HealthAnswer(hEnv))
    /\ UNCHANGED <<hEnv, hPc, hExitCode>>
    /\ UNCHANGED <<gvars, ovars, svars, fvars, bvars, dvars, hOthers>>

\* process.on("SIGTERM" | "SIGINT", ...): process.exit(0)
Signal ==
    /\ hPc \in {"loaded", "listening"}
    /\ hPc' = "exited"
    /\ hExitCode' = 0
    /\ UNCHANGED <<hEnv, hAnswers>>
    /\ UNCHANGED <<gvars, ovars, svars, fvars, bvars, dvars, hOthers>>

HNext == StartServer \/ GetHealth \/ Signal

(***************************************************************************)
(* App.jsx: handleAnalysisResult; AuraCanvas.jsx: updateWithProps, draw.   *)
(* Numbers are kept to five decimals (1.0 is 100000), a product is rounded *)
(* to the nearest unit as a double is rounded to the nearest double.       *)
(***************************************************************************)
MaxResults == 2
MaxClock == 2

ONE == 100000

\* x * num / den, rounded to the nearest unit
MulRound(x, num, den) ==
    IF x >= 0 THEN (x * num + den \div 2) \div den
    ELSE -((-x * num + den \div 2) \div den)

\* p5's lerp(start, stop, amt) = amt * (stop - start) + start, amt in 1/100
Lerp(start, stop, amtPercent) == MulRound(stop - start, amtPercent, 100) + start

PARAMS_easing == 10
PULSE_DECAY == 86

\* the analysis results the hook hands to onAnalysisResult
AnalysisResults ==
    {[isNull |-> FALSE, sentiment |-> JsNumber(50000), isArray |-> TRUE,
      keywords |-> <<"hello", "name">>, model |-> "gemini"],
     [isNull |-> FALSE, sentiment |-> JsNumber(50020), isArray |-> TRUE,
      keywords |-> <<"student", "hello">>, model |-> "gemini"],
     [isNull |-> FALSE, sentiment |-> JsNumber(50000), isArray |-> TRUE,
      keywords |-> <<"sorry">>, model |-> "fallback"],
     [isNull |-> FALSE, sentiment |-> JsUndefined, isArray |-> FALSE,
      keywords |-> <<>>, model |-> "gemini"],
     [isNull |-> TRUE, sentiment |-> JsUndefined, isArray |-> FALSE,
      keywords |-> <<>>, model |-> ""]}

\* the values of visualSentiment the canvas is handed as props.sentiment
CanvasSentiments == {50000, 50020}

CIdle ==
    /\ aNow = 1
    /\ aSentiment = 0
    /\ aKeywords = <<>>
    /\ aPulse = 0
    /\ aResults = MaxResults
    /\ aAllKeywords = {}
    /\ aUnseen = FALSE
    /\ pSentiment = 0
    /\ pPulse = 0
    /\ pPulseEnergy = 0
    /\ pSmoothed = 0
    /\ pFrameParity = 0

\* useState(0), useState([]); the sketch's own initial values, for a canvas
\* that was first handed the sentiment v
CInit ==
    /\ aNow = 1
    /\ aSentiment = 0
    /\ aKeywords = <<>>
    /\ aPulse = 0
    /\ aResults = 0
    /\ aAllKeywords = {}
    /\ aUnseen = FALSE
    /\ pSentiment \in CanvasSentiments
    /\ pPulse = 0
    /\ pPulseEnergy = 0
    /\ pSmoothed = pSentiment
    /\ pFrameParity = 0

\* time passes: Date.now() returns a later value
ClockTick ==
    /\ aNow < MaxClock
    /\ aNow' = aNow + 1
    /\ UNCHANGED <<aSentiment, aKeywords, aPulse, aResults, aAllKeywords, aUnseen>>
    /\ UNCHANGED <<pSentiment, pPulse, pPulseEnergy, pSmoothed, pFrameParity>>
    /\ UNCHANGED <<gvars, ovars, svars, fvars, bvars, dvars, cOthers>>

\* handleAnalysisResult(result)
HandleAnalysisResult(result) ==
    /\ aResults < MaxResults
    /\ aResults' = aResults + 1
    /\ IF result.isNull
         THEN UNCHANGED <<aSentiment, aKeywords, aPulse, aAllKeywords, aUnseen>>
         ELSE /\ aSentiment' = IF result.sentiment.t = "number"
                                 THEN result.sentiment.n ELSE aSentiment
              /\ aKeywords' = IF result.isArray THEN result.keywords ELSE aKeywords
              /\ aPulse' = aNow
              /\ aAllKeywords' = aAllKeywords \cup
                    {result.keywords[i] : i \in 1..Len(result.keywords)}
              /\ aUnseen' = TRUE
    /\ UNCHANGED aNow
    /\ UNCHANGED <<pSentiment, pPulse, pPulseEnergy, pSmoothed, pFrameParity>>
    /\ UNCHANGED <<gvars, ovars, svars, fvars, bvars, dvars, cOthers>>

\* p.updateWithProps(props), props = {sentiment: visualSentiment, pulse}
UpdateWithProps(sentiment) ==
    /\ pSentiment' = Clamp(0, ONE, sentiment)
    /\ IF aPulse # pPulse
         THEN pPulse' = aPulse /\ pPulseEnergy' = ONE
         ELSE UNCHANGED <<pPulse, pPulseEnergy>>
    /\ aUnseen' = FALSE
    /\ UNCHANGED <<pSmoothed, pFrameParity>>
    /\ UNCHANGED <<aNow, aSentiment, aKeywords, aPulse, aResults, aAllKeywords>>
    /\ UNCHANGED <<gvars, ovars, svars, fvars, bvars, dvars, cOthers>>

\* p.draw, lines 87-92
Draw ==
    /\ pSmoothed' = Lerp(pSmoothed, pSentiment, PARAMS_easing)
    /\ pPulseEnergy' = IF MulRound(pPulseEnergy, PULSE_DECAY, 100) > 0
                         THEN MulRound(pPulseEnergy, PULSE_DECAY, 100) ELSE 0
    /\ pFrameParity' = 1 - pFrameParity
    /\ UNCHANGED <<pSentiment, pPulse>>
    /\ UNCHANGED <<aNow, aSentiment, aKeywords, aPulse, aResults, aAllKeywords, aUnseen>>
    /\ UNCHANGED <<gvars, ovars, svars, fvars, bvars, dvars, cOthers>>

CNext ==
    \/ ClockTick
    \/ \E result \in AnalysisResults : HandleAnalysisResult(result)
    \/ \E sentiment \in CanvasSentiments : UpdateWithProps(sentiment)
    \/ Draw

(***************************************************************************)
(* App.jsx: the effect that eases visualSentiment toward sentiment         *)
(***************************************************************************)
MaxTargetChanges == 2

APP_EASING == 8
APP_EPSILON == 50

EasingTargets == {0, 50000, ONE}

EIdle ==
    /\ eSentiment = 0
    /\ eVisual = 0
    /\ eChanges = MaxTargetChanges
    /\ eFrameParity = 0

\* useState(0) for both
EInit ==
    /\ eSentiment = 0
    /\ eVisual = 0
    /\ eChanges = 0
    /\ eFrameParity = 0

\* setSentiment(result.sentiment): the effect runs again with the new target
SetSentiment(value) ==
    /\ eChanges < MaxTargetChanges
    /\ value # eSentiment
    /\ eSentiment' = value
    /\ eChanges' = eChanges + 1
    /\ UNCHANGED <<eVisual, eFrameParity>>
    /\ UNCHANGED <<gvars, ovars, svars, fvars, bvars, dvars, eOthers>>

\* step, lines 39-46: one animation frame
Step ==
    /\ LET next == eVisual + MulRound(eSentiment - eVisual, APP_EASING, 100)
       IN  eVisual' = IF Abs(next - eSentiment) < APP_EPSILON THEN eSentiment
                      ELSE next
    /\ eFrameParity' = 1 - eFrameParity
    /\ UNCHANGED <<eSentiment, eChanges>>
    /\ UNCHANGED <<gvars, ovars, svars, fvars, bvars, dvars, eOthers>>

ENext ==
    \/ \E value \in EasingTargets : SetSentiment(value)
    \/ Step

(***************************************************************************)
(* deepgramRealtime.js: the socket of a session, and the callbacks the     *)
(* hook and App register with it                                           *)
(***************************************************************************)
MaxStarts == 2
MaxMessages == 3
MaxFaults == 2

\* alternatives[0].transcript of a Results message
Transcripts == {""} \cup Texts

\* The messages a socket delivers: Results with or without an alternative,
\* the two other types handled, and data JSON.parse rejects.
Messages ==
    [type : {"Results"}, alternatives : {1}, transcript : Transcripts,
     is_final : BOOLEAN, speech_final : BOOLEAN]
    \cup [type : {"Results", "UtteranceEnd", "Metadata", "Malformed"},
          alternatives : {0}, transcript : {""},
          is_final : {FALSE}, speech_final : {FALSE}]

\* text and is_final as ws.onmessage computes them
EventOf(msg) ==
    [text |-> msg.transcript,
     is_final |-> (msg.is_final \/ msg.speech_final)]

\* the conditions under which ws.onmessage calls onTranscriptCb
IsTranscriptEvent(msg) ==
    /\ msg.type = "Results"
    /\ msg.alternatives > 0
    /\ (EventOf(msg).text # "" \/ EventOf(msg).is_final)

\* is_final && text && text.trim()
IsSubmitted(ev) == ev.is_final /\ ev.text # "" /\ Trim(ev.text) # ""

\* App.handleTranscriptLine({text, is_final})
HandleTranscriptLine(ev) ==
    IF ev.text = ""
      THEN UNCHANGED <<wPartial, wTranscript>>
      ELSE IF ev.is_final
             THEN /\ wTranscript' = Append(wTranscript, ev.text)
                  /\ wPartial' = ""
             ELSE /\ wPartial' = ev.text
                  /\ UNCHANGED wTranscript

\* handleTranscript({text, is_final}) of the hook, up to its await: the
\* observer when there is one, then callBackendAPI for a final line
HandleTranscript(ev) ==
    LET n == Len(wEvents) + 1
        observed == IF wHandlers
                      THEN <<[call |-> "onTranscriptLine", event |-> n]>>
                      ELSE <<>>
        submitted == IF IsSubmitted(ev)
                       THEN <<[call |-> "callBackendAPI", event |-> n]>>
                       ELSE <<>>
    IN  /\ wEvents' = Append(wEvents, ev)
        /\ wTrace' = wTrace \o observed \o submitted
        /\ IF wHandlers THEN HandleTranscriptLine(ev)
                        ELSE UNCHANGED <<wPartial, wTranscript>>

\* The function ws.onerror holds when start() suspends at the connection
\* wait: line 133 assigns the reporting handler, line 154 assigns over it.
OnErrorAfterSetup == "report"
OnErrorAfterWait == "reject"

WIdle ==
    /\ wService = FALSE
    /\ wHandlers = FALSE
    /\ wReady = "none"
    /\ wOnError = "none"
    /\ wWait = "none"
    /\ wAudio = FALSE
    /\ wStopping = FALSE
    /\ wStarts = MaxStarts
    /\ wCount = MaxMessages
    /\ wFaults = <<>>
    /\ wReported = <<>>
    /\ wThrown = <<>>
    /\ wEvents = <<>>
    /\ wTrace = <<>>
    /\ wPartial = ""
    /\ wTranscript = <<>>

\* after the initialisation effect: the service exists, nothing is started
WInit ==
    /\ wService = TRUE
    /\ wHandlers = FALSE
    /\ wReady = "none"
    /\ wOnError = "none"
    /\ wWait = "none"
    /\ wAudio = FALSE
    /\ wStopping = FALSE
    /\ wStarts = 0
    /\ wCount = 0
    /\ wFaults = <<>>
    /\ wReported = <<>>
    /\ wThrown = <<>>
    /\ wEvents = <<>>
    /\ wTrace = <<>>
    /\ wPartial = ""
    /\ wTranscript = <<>>

\* start({onTranscriptLine, onAnalysisResult}) of the hook, and start() of
\* the service up to await new Promise: the microphone and the token are
\* granted or not; with both, the socket is created and its handlers set.
HookStart(granted) ==
    /\ wService
    /\ wReady \in {"none", "closed"}
    /\ ~wStopping
    /\ wStarts < MaxStarts
    /\ wStarts' = wStarts + 1
    /\ wHandlers' = TRUE
    /\ IF granted
         THEN /\ wReady' = "connecting"
              /\ wOnError' = OnErrorAfterWait
              /\ wWait' = "pending"
              /\ UNCHANGED wThrown
         ELSE /\ wThrown' = Append(wThrown, "setup")
              /\ UNCHANGED <<wReady, wOnError, wWait>>
    /\ UNCHANGED <<wService, wAudio, wStopping, wCount, wFaults, wReported,
                   wEvents, wTrace, wPartial, wTranscript>>
    /\ UNCHANGED <<gvars, ovars, svars, fvars, bvars, dvars, wOthers>>

\* ws.onopen (line 148): the wait resolves and start() sets up the audio
WsOnOpen ==
    /\ wReady = "connecting"
    /\ wReady' = "open"
    /\ wWait' = IF wWait = "pending" THEN "resolved" ELSE wWait
    /\ wAudio' = IF wWait = "pending" THEN TRUE ELSE wAudio
    /\ UNCHANGED <<wService, wHandlers, wOnError, wStopping, wStarts, wCount,
                   wFaults, wReported, wThrown, wEvents, wTrace, wPartial,
                   wTranscript>>
    /\ UNCHANGED <<gvars, ovars, svars, fvars, bvars, dvars, wOthers>>

\* the CONNECTION_TIMEOUT timer fires before the socket opened: the wait
\* rejects, and the catch of start() calls stop() (which closes the socket
\* at once, or after audioContext.close() when an earlier session left an
\* audio context) and throws
ConnectionTimeout ==
    /\ wReady = "connecting"
    /\ wWait = "pending"
    /\ wWait' = "rejected"
    /\ IF wAudio
         THEN wStopping' = TRUE /\ UNCHANGED wReady
         ELSE wReady' = "closed" /\ UNCHANGED wStopping
    /\ wThrown' = Append(wThrown, "timeout")
    /\ UNCHANGED <<wService, wHandlers, wOnError, wAudio, wStarts,
                   wCount, wFaults, wReported, wEvents, wTrace, wPartial,
                   wTranscript>>
    /\ UNCHANGED <<gvars, ovars, svars, fvars, bvars, dvars, wOthers>>

\* the socket fails: its error event runs the function in ws.onerror, and
\* the socket is closed.  The reporting handler calls onErrorCb, which is
\* handleError of the hook; the rejecting handler rejects the wait, which
\* does something only while the wait is pending.
WsOnError ==
    /\ wReady \in {"connecting", "open"}
    /\ Len(wFaults) < MaxFaults
    /\ wFaults' = Append(wFaults, wReady)
    /\ wReady' = "closed"
    /\ CASE wOnError = "report" ->
              /\ wReported' = Append(wReported, wReady)
              /\ UNCHANGED <<wWait, wThrown>>
         [] wOnError = "reject" /\ wWait = "pending" ->
              /\ wWait' = "rejected"
              /\ wThrown' = Append(wThrown, "socket")
              /\ UNCHANGED wReported
         [] OTHER -> UNCHANGED <<wReported, wWait, wThrown>>
    /\ UNCHANGED <<wService, wHandlers, wOnError, wAudio, wStopping, wStarts,
                   wCount, wEvents, wTrace, wPartial, wTranscript>>
    /\ UNCHANGED <<gvars, ovars, svars, fvars, bvars, dvars, wOthers>>

\* ws.onmessage(evt), with handleTranscript and handleTranscriptLine
WsOnMessage(msg) ==
    /\ wReady = "open"
    /\ wCount < MaxMessages
    /\ wCount' = wCount + 1
    /\ IF IsTranscriptEvent(msg)
         THEN HandleTranscript(EventOf(msg))
         ELSE UNCHANGED <<wEvents, wTrace, wPartial, wTranscript>>
    /\ UNCHANGED <<wService, wHandlers, wReady, wOnError, wWait, wAudio,
                   wStopping, wStarts, wFaults, wReported, wThrown>>
    /\ UNCHANGED <<gvars, ovars, svars, fvars, bvars, dvars, wOthers>>

\* cleanup() of the hook: stop() of the service runs up to its first await
\* (audioContext.close(), when there is an audio context; without one it
\* runs to its end and closes the socket), then the refs are cleared.
HookCleanup ==
    /\ wService
    /\ ~wStopping
    /\ wService' = FALSE
    /\ wHandlers' = FALSE
    /\ IF wAudio
         THEN /\ wStopping' = TRUE
              /\ UNCHANGED <<wReady, wWait, wThrown>>
         ELSE /\ wReady' = IF wReady = "none" THEN "none" ELSE "closed"
              /\ wWait' = IF wWait = "pending" THEN "rejected" ELSE wWait
              /\ wThrown' = IF wWait = "pending"
                              THEN Append(wThrown, "socket") ELSE wThrown
              /\ UNCHANGED wStopping
    /\ UNCHANGED <<wOnError, wAudio, wStarts, wCount, wFaults, wReported,
                   wEvents, wTrace, wPartial, wTranscript>>
    /\ UNCHANGED <<gvars, ovars, svars, fvars, bvars, dvars, wOthers>>

\* audioContext.close() settles: stop() goes on to close the socket
StopResumes ==
    /\ wStopping
    /\ wStopping' = FALSE
    /\ wAudio' = FALSE
    /\ wReady' = IF wReady = "none" THEN "none" ELSE "closed"
    /\ UNCHANGED <<wService, wHandlers, wOnError, wWait, wStarts, wCount,
                   wFaults, wReported, wThrown, wEvents, wTrace, wPartial,
                   wTranscript>>
    /\ UNCHANGED <<gvars, ovars, svars, fvars, bvars, dvars, wOthers>>

WNext ==
    \/ \E granted \in BOOLEAN : HookStart(granted)
    \/ WsOnOpen
    \/ ConnectionTimeout
    \/ WsOnError
    \/ \E msg \in Messages : WsOnMessage(msg)
    \/ HookCleanup
    \/ StopResumes

(***************************************************************************)
(* The audio capture service (createAudioCapture).  A stream, a context    *)
(* and a processor are named by the start() call that made them; 0 is      *)
(* null.                                                                   *)
(***************************************************************************)
MaxCaptureStarts == 2   \* start() calls that pass the recording guard
MaxCaptureCalls == 4    \* calls of the public API and audio events per run

CaptureCalls == 1..MaxCaptureStarts
NoResource == 0

\* what getUserMedia and the new context can do for a start() call
MicOutcomes == {"granted", "suspended", "denied"}

MIdle ==
    /\ mRecording = FALSE
    /\ mPaused = FALSE
    /\ mChunkCallback = FALSE
    /\ mMediaStream = NoResource
    /\ mAudioContext = NoResource
    /\ mAudioInput = NoResource
    /\ mProcessor = NoResource
    /\ mOpenStreams = {}
    /\ mOpenContexts = {}
    /\ mWired = {}
    /\ mStartPc = [c \in CaptureCalls |-> "idle"]
    /\ mStops = 0
    /\ mCalls = 0
    /\ mOp = "none"
    /\ mLast = "none"
    /\ mChunks = 0

\* let audioContext = null; ... let recording = false; let isPaused = false;
\* let chunkCallback = null
MInit == MIdle

\* the public API is called once more, or the processor gets an audio event
CaptureCall(op) ==
    /\ mCalls < MaxCaptureCalls
    /\ mCalls' = mCalls + 1
    /\ mOp' = op

\* the catch of start(): recording = false; handleError(error); throw error
StartCatch(c) ==
    /\ mRecording' = FALSE
    /\ mStartPc' = [mStartPc EXCEPT ![c] = "failed"]

\* createMediaStreamSource, createScriptProcessor, onaudioprocess and the two
\* connect calls, on the audioContext and mediaStream of the closure
WireUp(c) ==
    /\ mAudioInput' = c
    /\ mProcessor' = c
    /\ mWired' = mWired \cup {[proc |-> c, ctx |-> mAudioContext']}
    /\ mStartPc' = [mStartPc EXCEPT ![c] = "done"]

\* onChunk(cb) with a function
OnChunk ==
    /\ ~mChunkCallback
    /\ CaptureCall("onChunk")
    /\ mChunkCallback' = TRUE
    /\ UNCHANGED <<mRecording, mPaused, mMediaStream, mAudioContext,
                   mAudioInput, mProcessor, mOpenStreams, mOpenContexts,
                   mWired, mStartPc, mStops, mLast, mChunks>>
    /\ UNCHANGED <<gvars, ovars, svars, fvars, bvars, dvars, mOthers>>

\* start() up to await getUserMedia
CaptureStart ==
    /\ mRecording \/ \E c \in CaptureCalls : mStartPc[c] = "idle"
    /\ CaptureCall("start")
    /\ mLast' = "start"
    /\ IF mRecording
         THEN UNCHANGED <<mRecording, mStartPc>>
         ELSE LET c == CHOOSE k \in CaptureCalls :
                          /\ mStartPc[k] = "idle"
                          /\ \A j \in CaptureCalls :
                                mStartPc[j] = "idle" => k <= j
              IN /\ mRecording' = TRUE
                 /\ mStartPc' = [mStartPc EXCEPT ![c] = "mic"]
    /\ UNCHANGED <<mPaused, mChunkCallback, mMediaStream, mAudioContext,
                   mAudioInput, mProcessor, mOpenStreams, mOpenContexts,
                   mWired, mStops, mChunks>>
    /\ UNCHANGED <<gvars, ovars, svars, fvars, bvars, dvars, mOthers>>

\* getUserMedia settles for a start() call: rejected, or the stream is
\* stored and the context created, running or suspended
MicSettles(c, outcome) ==
    /\ mStartPc[c] = "mic"
    /\ CASE outcome = "denied" ->
              /\ StartCatch(c)
              /\ UNCHANGED <<mMediaStream, mAudioContext, mAudioInput,
                             mProcessor, mOpenStreams, mOpenContexts, mWired>>
         [] outcome = "granted" ->
              /\ mMediaStream' = c
              /\ mOpenStreams' = mOpenStreams \cup {c}
              /\ mAudioContext' = c
              /\ mOpenContexts' = mOpenContexts \cup {c}
              /\ WireUp(c)
              /\ UNCHANGED mRecording
         [] OTHER ->
              /\ mMediaStream' = c
              /\ mOpenStreams' = mOpenStreams \cup {c}
              /\ mAudioContext' = c
              /\ mOpenContexts' = mOpenContexts \cup {c}
              /\ mStartPc' = [mStartPc EXCEPT ![c] = "resume"]
              /\ UNCHANGED <<mRecording, mAudioInput, mProcessor, mWired>>
    /\ UNCHANGED <<mPaused, mChunkCallback, mStops, mCalls, mOp, mLast,
                   mChunks>>
    /\ UNCHANGED <<gvars, ovars, svars, fvars, bvars, dvars, mOthers>>

\* audioContext.resume() settles for a start() call; the statements after it
\* read audioContext and mediaStream again (a null there is a TypeError)
ResumeSettles(c, ok) ==
    /\ mStartPc[c] = "resume"
    /\ UNCHANGED <<mPaused, mChunkCallback, mMediaStream, mAudioContext,
                   mOpenStreams, mOpenContexts, mStops, mCalls, mOp, mLast,
                   mChunks>>
    /\ IF ok /\ mAudioContext # NoResource /\ mMediaStream # NoResource
         THEN WireUp(c) /\ UNCHANGED mRecording
         ELSE StartCatch(c) /\ UNCHANGED <<mAudioInput, mProcessor, mWired>>
    /\ UNCHANGED <<gvars, ovars, svars, fvars, bvars, dvars, mOthers>>

\* mediaStream.getTracks().forEach(track => track.stop()); mediaStream = null
StopTracks ==
    /\ mOpenStreams' = mOpenStreams \ {mMediaStream}
    /\ mMediaStream' = NoResource

\* stop() up to await audioContext.close(), or to its end when there is no
\* open context to wait for
CaptureStop ==
    /\ CaptureCall("stop")
    /\ mLast' = "stop"
    /\ IF ~mRecording
         THEN UNCHANGED <<mRecording, mPaused, mMediaStream, mAudioContext,
                          mAudioInput, mProcessor, mOpenStreams,
                          mOpenContexts, mWired, mStops>>
         ELSE /\ mRecording' = FALSE
              /\ mPaused' = FALSE
              /\ mWired' = {w \in mWired : w.proc # mProcessor}
              /\ mProcessor' = NoResource
              /\ mAudioInput' = NoResource
              /\ IF mAudioContext \in mOpenContexts
                   THEN /\ mOpenContexts' = mOpenContexts \ {mAudioContext}
                        /\ mStops' = mStops + 1
                        /\ UNCHANGED <<mAudioContext, mMediaStream,
                                       mOpenStreams>>
                   ELSE /\ mAudioContext' = NoResource
                        /\ StopTracks
                        /\ UNCHANGED <<mOpenContexts, mStops>>
    /\ UNCHANGED <<mChunkCallback, mStartPc, mChunks>>
    /\ UNCHANGED <<gvars, ovars, svars, fvars, bvars, dvars, mOthers>>

\* audioContext.close() settles: stop() runs on to its end
StopContinues ==
    /\ mStops > 0
    /\ mStops' = mStops - 1
    /\ mAudioContext' = NoResource
    /\ StopTracks
    /\ UNCHANGED <<mRecording, mPaused, mChunkCallback, mAudioInput,
                   mProcessor, mOpenContexts, mWired, mStartPc, mCalls, mOp,
                   mLast, mChunks>>
    /\ UNCHANGED <<gvars, ovars, svars, fvars, bvars, dvars, mOthers>>

\* pause()
CapturePause ==
    /\ CaptureCall("pause")
    /\ mPaused' = IF mRecording THEN TRUE ELSE mPaused
    /\ UNCHANGED <<mRecording, mChunkCallback, mMediaStream, mAudioContext,
                   mAudioInput, mProcessor, mOpenStreams, mOpenContexts,
                   mWired, mStartPc, mStops, mLast, mChunks>>
    /\ UNCHANGED <<gvars, ovars, svars, fvars, bvars, dvars, mOthers>>

\* resume()
CaptureResume ==
    /\ CaptureCall("resume")
    /\ mPaused' = IF mRecording THEN FALSE ELSE mPaused
    /\ UNCHANGED <<mRecording, mChunkCallback, mMediaStream, mAudioContext,
                   mAudioInput, mProcessor, mOpenStreams, mOpenContexts,
                   mWired, mStartPc, mStops, mLast, mChunks>>
    /\ UNCHANGED <<gvars, ovars, svars, fvars, bvars, dvars, mOthers>>

\* if (!recording || isPaused || !chunkCallback) return, then the chunk is
\* built and handed to chunkCallback
ProcessAudioChunk ==
    mChunks' = IF ~mRecording \/ mPaused \/ ~mChunkCallback
                 THEN mChunks ELSE mChunks + 1

\* processor.onaudioprocess of a connected processor whose context is open
OnAudioProcess(w) ==
    /\ w \in mWired
    /\ w.ctx \in mOpenContexts
    /\ CaptureCall("audio")
    /\ IF ~mRecording \/ mPaused
         THEN UNCHANGED mChunks
         ELSE ProcessAudioChunk
    /\ UNCHANGED <<mRecording, mPaused, mChunkCallback, mMediaStream,
                   mAudioContext, mAudioInput, mProcessor, mOpenStreams,
                   mOpenContexts, mWired, mStartPc, mStops, mLast>>
    /\ UNCHANGED <<gvars, ovars, svars, fvars, bvars, dvars, mOthers>>

MNext ==
    \/ OnChunk
    \/ CaptureStart
    \/ \E c \in CaptureCalls, outcome \in MicOutcomes : MicSettles(c, outcome)
    \/ \E c \in CaptureCalls, ok \in BOOLEAN : ResumeSettles(c, ok)
    \/ CaptureStop
    \/ StopContinues
    \/ CapturePause
    \/ CaptureResume
    \/ \E w \in mWired : OnAudioProcess(w)

(***************************************************************************)
(* The resources of one Deepgram service (createDeepgramRealtime): the     *)
(* stream, socket, context and processor made by a start() call carry the  *)
(* number of that call; 0 is null.                                         *)
(***************************************************************************)
MaxServiceStarts == 2   \* start() calls per run
MaxServiceStops == 2    \* stop() calls from outside per run

ServiceCalls == 1..MaxServiceStarts
Null == 0

\* the sockets that are CONNECTING or OPEN
OpenSockets == {k \in ServiceCalls : rSocket[k] \in {"connecting", "open"}}

\* ws.close() when ws is OPEN or CONNECTING; closing a connecting socket
\* fails its connection, and the error event follows
CloseWs(socket) ==
    IF rWs # Null /\ socket[rWs] \in {"connecting", "open"}
      THEN [socket EXCEPT ![rWs] = IF socket[rWs] = "open" THEN "closed"
                                                           ELSE "failing"]
      ELSE socket

\* stop() from "Stop microphone" on: the tracks of stream are stopped, ws is
\* closed, both are set to null
StopRest(socket) ==
    /\ rLive' = rLive \ {rStream}
    /\ rStream' = Null
    /\ rSocket' = CloseWs(socket)
    /\ rWs' = Null

\* stop() up to await audioContext.close(), or to its end when there is no
\* open context; suspended tells which
StopSync(suspended, socket) ==
    /\ rWired' = rWired \ {rProcessor}
    /\ rProcessor' = Null
    /\ rAudioInput' = Null
    /\ suspended = (rAudioContext \in rOpenContexts)
    /\ IF suspended
         THEN /\ rOpenContexts' = rOpenContexts \ {rAudioContext}
              /\ rSocket' = socket
              /\ UNCHANGED <<rAudioContext, rLive, rStream, rWs>>
         ELSE /\ StopRest(socket)
              /\ UNCHANGED <<rAudioContext, rOpenContexts>>

\* a catch that throws without stop() (not the code's behaviour)
StartFailsBare(c, err, socket) ==
    /\ rErr' = [rErr EXCEPT ![c] = err]
    /\ rPc' = [rPc EXCEPT ![c] = "thrown"]
    /\ rSocket' = socket
    /\ UNCHANGED <<rWired, rProcessor, rAudioInput, rAudioContext,
                   rOpenContexts, rLive, rStream, rWs>>

\* the catch of start(): await stop(); throw err
StartFails(c, err, socket) ==
    /\ rErr' = [rErr EXCEPT ![c] = err]
    /\ \E suspended \in BOOLEAN :
          /\ StopSync(suspended, socket)
          /\ rPc' = [rPc EXCEPT ![c] = IF suspended THEN "stopping"
                                                    ELSE "thrown"]

RIdle ==
    /\ rWs = Null
    /\ rAudioContext = Null
    /\ rAudioInput = Null
    /\ rProcessor = Null
    /\ rStream = Null
    /\ rLive = {}
    /\ rSocket = [k \in ServiceCalls |-> "none"]
    /\ rOpenContexts = {}
    /\ rWired = {}
    /\ rPc = [c \in ServiceCalls |-> "idle"]
    /\ rTimer = [c \in ServiceCalls |-> "none"]
    /\ rErr = [c \in ServiceCalls |-> "none"]
    /\ rStops = 0
    /\ rStopCalls = 0
    /\ rResolved = 0

\* let ws = null; let audioContext = null; let audioInput = null;
\* let processor = null; let stream = null
RInit == RIdle

\* start() up to await getUserMedia
ServiceStart(c) ==
    /\ rPc[c] = "idle"
    /\ \A k \in ServiceCalls : k < c => rPc[k] # "idle"
    /\ rPc' = [rPc EXCEPT ![c] = "mic"]
    /\ UNCHANGED <<rWs, rAudioContext, rAudioInput, rProcessor, rStream,
                   rLive, rSocket, rOpenContexts, rWired, rTimer, rErr,
                   rStops, rStopCalls, rResolved>>
    /\ UNCHANGED <<gvars, ovars, svars, fvars, bvars, dvars, rOthers>>

\* getUserMedia settles: stream = the new stream, then await getToken()
ServiceMicSettles(c, granted) ==
    /\ rPc[c] = "mic"
    /\ IF granted
         THEN /\ rStream' = c
              /\ rLive' = rLive \cup {c}
              /\ rPc' = [rPc EXCEPT ![c] = "token"]
              /\ UNCHANGED <<rWs, rAudioContext, rAudioInput, rProcessor,
                             rSocket, rOpenContexts, rWired, rErr>>
         ELSE StartFails(c, "microphone", rSocket)
    /\ UNCHANGED <<rTimer, rStops, rStopCalls, rResolved>>
    /\ UNCHANGED <<gvars, ovars, svars, fvars, bvars, dvars, rOthers>>

\* getToken() settles: ws = new WebSocket, its handlers, and the connection
\* wait with its timer
TokenSettles(c, ok) ==
    /\ rPc[c] = "token"
    /\ IF ok
         THEN /\ rWs' = c
              /\ rSocket' = [rSocket EXCEPT ![c] = "connecting"]
              /\ rTimer' = [rTimer EXCEPT ![c] = "pending"]
              /\ rPc' = [rPc EXCEPT ![c] = "wait"]
              /\ UNCHANGED <<rAudioContext, rAudioInput, rProcessor, rStream,
                             rLive, rOpenContexts, rWired, rErr>>
         ELSE StartFails(c, "token", rSocket) /\ UNCHANGED rTimer
    /\ UNCHANGED <<rStops, rStopCalls, rResolved>>
    /\ UNCHANGED <<gvars, ovars, svars, fvars, bvars, dvars, rOthers>>

\* the socket of a start() call opens: ws.onopen of the wait clears the timer
\* and resolves, and start() sets up the audio.  With stream null,
\* createMediaStreamSource throws after the context was made, and the catch
\* closes that context.
SocketOpens(c) ==
    /\ rSocket[c] = "connecting"
    /\ rSocket' = [rSocket EXCEPT ![c] = "open"]
    /\ IF rPc[c] # "wait"
         THEN UNCHANGED <<rAudioContext, rAudioInput, rProcessor,
                          rOpenContexts, rWired, rPc, rTimer, rErr>>
         ELSE /\ rTimer' = [rTimer EXCEPT ![c] = "cleared"]
              /\ rAudioContext' = c
              /\ IF rStream # Null
                   THEN /\ rOpenContexts' = rOpenContexts \cup {c}
                        /\ rAudioInput' = c
                        /\ rProcessor' = c
                        /\ rWired' = rWired \cup {c}
                        /\ rPc' = [rPc EXCEPT ![c] = "done"]
                        /\ UNCHANGED rErr
                   ELSE /\ rErr' = [rErr EXCEPT ![c] = "TypeError"]
                        /\ rPc' = [rPc EXCEPT ![c] = "stopping"]
                        /\ rWired' = rWired \ {rProcessor}
                        /\ rProcessor' = Null
                        /\ rAudioInput' = Null
                        /\ UNCHANGED rOpenContexts
    /\ UNCHANGED <<rWs, rStream, rLive, rStops, rStopCalls, rResolved>>
    /\ UNCHANGED <<gvars, ovars, svars, fvars, bvars, dvars, rOthers>>

\* the socket of a start() call fails, or the failure of a closed connection
\* attempt is reported: during the wait ws.onerror clears the timer and rejects
SocketErrors(c) ==
    /\ rSocket[c] \in {"connecting", "failing", "open"}
    /\ IF rPc[c] = "wait"
         THEN /\ rTimer' = [rTimer EXCEPT ![c] = "cleared"]
              /\ StartFails(c, "socket", [rSocket EXCEPT ![c] = "closed"])
         ELSE /\ rSocket' = [rSocket EXCEPT ![c] = "closed"]
              /\ UNCHANGED <<rWs, rAudioContext, rAudioInput, rProcessor,
                             rStream, rLive, rOpenContexts, rWired, rPc,
                             rTimer, rErr>>
    /\ UNCHANGED <<rStops, rStopCalls, rResolved>>
    /\ UNCHANGED <<gvars, ovars, svars, fvars, bvars, dvars, rOthers>>

\* the CONNECTION_TIMEOUT timer of a wait fires: reject
ServiceTimeout(c) ==
    /\ rTimer[c] = "pending"
    /\ rTimer' = [rTimer EXCEPT ![c] = "fired"]
    /\ StartFails(c, "timeout", rSocket)
    /\ UNCHANGED <<rStops, rStopCalls, rResolved>>
    /\ UNCHANGED <<gvars, ovars, svars, fvars, bvars, dvars, rOthers>>

\* audioContext.close() settles for the stop() of a catch: stop() runs to its
\* end and the error is thrown
CatchContinues(c) ==
    /\ rPc[c] = "stopping"
    /\ rAudioContext' = Null
    /\ StopRest(rSocket)
    /\ rPc' = [rPc EXCEPT ![c] = "thrown"]
    /\ UNCHANGED <<rAudioInput, rProcessor, rOpenContexts, rWired, rTimer,
                   rErr, rStops, rStopCalls, rResolved>>
    /\ UNCHANGED <<gvars, ovars, svars, fvars, bvars, dvars, rOthers>>

\* stop() called from outside
ServiceStop ==
    /\ rStopCalls < MaxServiceStops
    /\ rStopCalls' = rStopCalls + 1
    /\ \E suspended \in BOOLEAN :
          /\ StopSync(suspended, rSocket)
          /\ rStops' = IF suspended THEN rStops + 1 ELSE rStops
          /\ rResolved' = IF suspended THEN rResolved ELSE rResolved + 1
    /\ UNCHANGED <<rPc, rTimer, rErr>>
    /\ UNCHANGED <<gvars, ovars, svars, fvars, bvars, dvars, rOthers>>

\* audioContext.close() settles for a stop() called from outside
StopContinuesService ==
    /\ rStops > 0
    /\ rStops' = rStops - 1
    /\ rResolved' = rResolved + 1
    /\ rAudioContext' = Null
    /\ StopRest(rSocket)
    /\ UNCHANGED <<rAudioInput, rProcessor, rOpenContexts, rWired, rPc,
                   rTimer, rErr, rStopCalls>>
    /\ UNCHANGED <<gvars, ovars, svars, fvars, bvars, dvars, rOthers>>

RNext ==
    \/ \E c \in ServiceCalls : ServiceStart(c)
    \/ \E c \in ServiceCalls, granted \in BOOLEAN :
          ServiceMicSettles(c, granted)
    \/ \E c \in ServiceCalls, ok \in BOOLEAN : TokenSettles(c, ok)
    \/ \E c \in ServiceCalls : SocketOpens(c)
    \/ \E c \in ServiceCalls : SocketErrors(c)
    \/ \E c \in ServiceCalls : ServiceTimeout(c)
    \/ \E c \in ServiceCalls : CatchContinues(c)
    \/ ServiceStop
    \/ StopContinuesService

(***************************************************************************)
(* Specifications                                                          *)
(***************************************************************************)
XIdle == JIdle /\ KIdle /\ HIdle /\ CIdle /\ EIdle /\ WIdle /\ MIdle /\ RIdle

Init == GInit /\ OInit /\ SInit /\ FIdle /\ BIdle /\ DIdle /\ XIdle

SpecGemini == Init /\ [][GNext]_vars

\* a step of a callGeminiAPI call that is under way
GRunning ==
    \/ AttemptClock
    \/ AttemptSucceeds
    \/ \E err \in Failures : AttemptFails(err)
    \/ BackoffElapses

\* callGeminiAPI on a running event loop: time passes for a pending post,
\* axios settles it (at its timeout at the latest), and the setTimeout of a
\* backoff fires.
SpecGeminiFair == Init /\ [][GNext]_vars /\ WF_vars(GRunning)

SpecOrch == Init /\ [][ONext]_vars

InitFallback == GInit /\ OInit /\ SInit /\ FInit /\ BIdle /\ DIdle /\ XIdle

SpecFallback == InitFallback /\ [][FNext]_vars

InitBuild == GInit /\ OInit /\ SInit /\ FIdle /\ BInit /\ DIdle /\ XIdle

SpecBuild == InitBuild /\ [][BNext]_vars

InitNormalize == GInit /\ OInit /\ SInit /\ FIdle /\ BIdle /\ DInit /\ XIdle

SpecNormalize == InitNormalize /\ [][DNext]_vars

SpecServer == Init /\ [][SNext]_vars

InitParse == GInit /\ OInit /\ SInit /\ FIdle /\ BIdle /\ DIdle /\ JInit /\ KIdle /\ HIdle /\ CIdle /\ EIdle /\ WIdle /\ MIdle /\ RIdle

SpecParse == InitParse /\ [][JNext]_vars

InitKeywords == GInit /\ OInit /\ SInit /\ FIdle /\ BIdle /\ DIdle /\ JIdle /\ KInit /\ HIdle /\ CIdle /\ EIdle /\ WIdle /\ MIdle /\ RIdle

SpecKeywords == InitKeywords /\ [][KNext]_vars

InitStartup == GInit /\ OInit /\ SInit /\ FIdle /\ BIdle /\ DIdle /\ JIdle /\ KIdle /\ HInit /\ CIdle /\ EIdle /\ WIdle /\ MIdle /\ RIdle

SpecStartup == InitStartup /\ [][HNext]_vars

InitCanvas == GInit /\ OInit /\ SInit /\ FIdle /\ BIdle /\ DIdle /\ JIdle /\ KIdle /\ HIdle /\ CInit /\ EIdle /\ WIdle /\ MIdle /\ RIdle

SpecCanvas == InitCanvas /\ [][CNext]_vars

InitEasing == GInit /\ OInit /\ SInit /\ FIdle /\ BIdle /\ DIdle /\ JIdle /\ KIdle /\ HIdle /\ CIdle /\ EInit /\ WIdle /\ MIdle /\ RIdle

SpecEasing == InitEasing /\ [][ENext]_vars

InitTransport == GInit /\ OInit /\ SInit /\ FIdle /\ BIdle /\ DIdle /\ JIdle /\ KIdle /\ HIdle /\ CIdle /\ EIdle /\ WInit /\ MIdle /\ RIdle

SpecTransport == InitTransport /\ [][WNext]_vars

InitCapture == GInit /\ OInit /\ SInit /\ FIdle /\ BIdle /\ DIdle /\ JIdle /\ KIdle /\ HIdle /\ CIdle /\ EIdle /\ WIdle /\ MInit /\ RIdle

SpecCapture == InitCapture /\ [][MNext]_vars

InitDeepgram == GInit /\ OInit /\ SInit /\ FIdle /\ BIdle /\ DIdle /\ JIdle /\ KIdle /\ HIdle /\ CIdle /\ EIdle /\ WIdle /\ MIdle /\ RInit

SpecDeepgram == InitDeepgram /\ [][RNext]_vars

(***************************************************************************)
(* Claims about callGeminiAPI (SpecGemini)                                 *)
(***************************************************************************)
IsRetryableFailure(o) ==
    o.kind \in {"timeout", "network"}
        \/ (o.kind = "http" /\ ~(400 <= o.status /\ o.status < 500))

Is4xx(o) == o.kind = "http" /\ 400 <= o.status /\ o.status < 500

\* C8: callGeminiAPI(text, retries) makes at most retries+1 upstream
\* attempts and returns the response of the first successful one; after a
\* failed attempt i (0-based) that is not a 4xx it waits min(1000*2^i, 5000) ms
\* and tries again if and only if i < retries, with no wait after the final
\* failed attempt; 503, 503, success with retries = 2 returns after waits of
\* 1000 ms and 2000 ms.
C8_RetryBackoff ==
    /\ Len(gLog) <= gRetries + 1
    /\ gPc = "returned" =>
           /\ Len(gLog) >= 1
           /\ gLog[Len(gLog)] = Success
           /\ \A i \in 1 .. Len(gLog) - 1 : gLog[i] # Success
           /\ gOutcome.type = "data"
           /\ gOutcome.attempt = Len(gLog) - 1
    /\ \A i \in 1 .. Len(gLog) :
           IsRetryableFailure(gLog[i]) =>
               /\ (i < Len(gLog) \/ gPc \in {"waiting", "attempting"})
                      <=> (i - 1 < gRetries)
               /\ (i - 1 < gRetries) =>
                      /\ Len(gWaits) >= i
                      /\ gWaits[i] = Min(1000 * Pow2(i - 1), 5000)
               /\ ~(i - 1 < gRetries) => Len(gWaits) = i - 1
    /\ Len(gWaits) <= Len(gLog)
    /\ (gRetries = 2 /\ Len(gLog) = 3
            /\ gLog[1] = [kind |-> "http", status |-> 503]
            /\ gLog[2] = [kind |-> "http", status |-> 503]
            /\ gLog[3] = Success)
           => (gPc = "returned" /\ gWaits = <<1000, 2000>>)

\* two 503 failures and then a success, within retries = 2
C8_Witness ==
    /\ gPc = "returned"
    /\ gRetries = 2
    /\ gLog = <<[kind |-> "http", status |-> 503],
                [kind |-> "http", status |-> 503], Success>>
    /\ gWaits = <<1000, 2000>>

\* C9: an upstream failure with HTTP status in [400,500) on any attempt ends
\* the call at once: no later attempt and no backoff delay follows it, so a
\* 400 on the first attempt gives exactly one upstream attempt and an error.
C9_ClientErrorTerminal ==
    /\ \A i \in 1 .. Len(gLog) :
           Is4xx(gLog[i]) =>
               /\ i = Len(gLog)
               /\ gPc = "thrown"
               /\ gOutcome.type = "error"
               /\ Len(gWaits) = i - 1
    /\ (Len(gLog) >= 1 /\ gLog[1] = [kind |-> "http", status |-> 400])
           => (Len(gLog) = 1 /\ gPc = "thrown" /\ gWaits = <<>>)

\* a 400 on the first attempt of a call that had retries left
C9_Witness ==
    /\ gRetries = 2
    /\ gLog = <<[kind |-> "http", status |-> 400]>>
    /\ gPc = "thrown"
    /\ gOutcome.type = "error"

\* C10: when callGeminiAPI fails, the error carries the status and message
\* of the last failed attempt and an attempt count equal to the number of
\* upstream attempts actually made; it never returns a value when no attempt
\* succeeded.
C10_ErrorCarriesAttempts ==
    /\ gPc = "thrown" =>
           /\ gOutcome.type = "error"
           /\ Len(gLog) >= 1
           /\ LET last == gLog[Len(gLog)]
              IN /\ last # Success
                 /\ last.kind = "http" => gOutcome.status = last.status
                 /\ last.kind # "http" => gOutcome.status = 500
                 /\ gOutcome.message = ErrorMessage(last)
           /\ gOutcome.attempts = Len(gLog)
    /\ gPc = "returned" => \E i \in 1 .. Len(gLog) : gLog[i] = Success

(***************************************************************************)
(* Claims about the request orchestrator (SpecOrch)                        *)
(***************************************************************************)
ReqsOf(l) == {r \in DOMAIN reqs : reqs[r].line = l}

\* the line passed both gates of callBackendAPI when it was finalized
Accepted(l) == \E r \in ReqsOf(l) : reqs[r].retryCount = 0

\* a request of the line is unsettled, or a retry of it is scheduled
Busy(l) ==
    \/ \E r \in ReqsOf(l) : reqs[r].st # "done"
    \/ \E t \in retryTimers : t.line = l

DeliveriesOf(l) == {i \in DOMAIN delivered : delivered[i].line = l}

ErrorsOf(l) == {i \in DOMAIN errors : errors[i].line = l}

IsBlank(text) == text \in {"", " "}

\* C1: for every accepted finalized line of a session that is not stopped,
\* exactly one analysis result is delivered to onAnalysisResult: never two,
\* and one once nothing of the line is pending any more.
C1_ExactlyOneResult ==
    \A l \in DOMAIN finals :
        (Accepted(l) /\ finals[l].epoch = epoch) =>
            /\ Cardinality(DeliveriesOf(l)) <= 1
            /\ ~Busy(l) => Cardinality(DeliveriesOf(l)) = 1

\* C2: a request that failed by timeout/abort or network error is re-issued
\* for the same text after 2000 ms, up to MAX_RETRIES further attempts; only
\* after the last retry failed is onError called and the fallback delivered.
C2_RetriesReissued ==
    \A r \in DOMAIN reqs :
        LET l == reqs[r].line
        IN (/\ reqs[r].st = "done"
            /\ reqs[r].result \in {"cancel", "network"}
            /\ reqs[r].epoch = epoch
            /\ finals[l].epoch = epoch) =>
               IF reqs[r].retryCount < 3
                 THEN /\ \/ \E t \in retryTimers :
                               /\ t.line = l
                               /\ t.text = reqs[r].text
                               /\ t.retryCount = reqs[r].retryCount + 1
                               /\ t.delay = 2000
                         \/ \E q \in ReqsOf(l) :
                               /\ reqs[q].text = reqs[r].text
                               /\ reqs[q].retryCount = reqs[r].retryCount + 1
                         \/ Len(reqs) >= MaxReqs
                      /\ ErrorsOf(l) = {}
                      /\ DeliveriesOf(l) = {}
                 ELSE /\ Cardinality(ErrorsOf(l)) = 1
                      /\ Cardinality(DeliveriesOf(l)) = 1

\* C3: a finalized line whose text is blank or equals the immediately
\* preceding submitted text of the session starts no backend request.
C3_DedupNoRequest ==
    \A l \in DOMAIN finals :
        LET prior == {p \in 1 .. l - 1 :
                          /\ finals[p].epoch = finals[l].epoch
                          /\ ~IsBlank(finals[p].text)}
            dup == /\ prior # {}
                   /\ LET p == CHOOSE x \in prior : \A y \in prior : y <= x
                      IN finals[p].text = finals[l].text
        IN (IsBlank(finals[l].text) \/ dup) => ReqsOf(l) = {}

\* C4: at every moment at most one backend request is outstanding.
C4_SingleFlight ==
    Cardinality({r \in DOMAIN reqs : reqs[r].st = "inflight"}) <= 1

\* C5: after stop()/cleanup every in-flight request has been aborted, and no
\* backend request is issued afterwards for a text submitted before the stop.
C5_NoRequestAfterStop ==
    \A r \in DOMAIN reqs :
        /\ reqs[r].st = "inflight" => reqs[r].epoch = epoch
        /\ reqs[r].epoch = finals[reqs[r].line].epoch

\* C6: after stop() neither the result observer nor the error observer is
\* invoked for a request submitted before the stop.
C6_NoCallbackAfterStop ==
    /\ \A i \in DOMAIN delivered :
           delivered[i].epoch = finals[delivered[i].line].epoch
    /\ \A i \in DOMAIN errors :
           errors[i].epoch = finals[errors[i].line].epoch

\* C7: analysis results reach the result observer in the order their texts
\* were submitted.
C7_DeliveryInSubmissionOrder ==
    \A i, j \in DOMAIN delivered :
        i < j => delivered[i].line < delivered[j].line

\* the request ended in an unrecoverable failure: an HTTP error response, or
\* a retryable failure of the last retry
Unrecoverable(r) ==
    /\ reqs[r].st = "done"
    /\ \/ reqs[r].result = "http"
       \/ /\ reqs[r].result \in {"cancel", "network", "successFalse"}
          /\ reqs[r].retryCount >= MAX_RETRIES

FallbacksOf(l) == {i \in DeliveriesOf(l) : delivered[i].kind = "fallback"}

\* C11: for every backend request that ends in an unrecoverable failure (an
\* HTTP error response, or exhaustion of the retries) the error observer is
\* called exactly once and exactly one fallback result is delivered to the
\* result observer.
C11_FailureReportedOnce ==
    \A r \in DOMAIN reqs :
        Unrecoverable(r) =>
            /\ Cardinality(ErrorsOf(reqs[r].line)) = 1
            /\ Cardinality(FallbacksOf(reqs[r].line)) = 1

(***************************************************************************)
(* Claims about the local fallback result (SpecFallback)                   *)
(***************************************************************************)
\* the words of the text longer than 3 characters, case and punctuation
\* ignored, in the order of the text
LongWordsOf(text) ==
    SelectSeq(SplitWhitespace(StripPunctuation(ToLowerCase(text))), LongerThan3)

\* position of the first occurrence of w in ws (0 when absent)
FirstIndex(ws, w) ==
    IF \E i \in 1..Len(ws) : ws[i] = w
      THEN CHOOSE i \in 1..Len(ws) : ws[i] = w /\ \A j \in 1..(i - 1) : ws[j] # w
      ELSE 0

\* kw is the first 5 distinct entries of ws, in first-seen order
IsFirstDistinct(kw, ws) ==
    /\ Len(kw) = Min(5, Cardinality({ws[i] : i \in 1..Len(ws)}))
    /\ \A i \in 1..Len(kw) : FirstIndex(ws, kw[i]) > 0
    /\ \A i, j \in 1..Len(kw) :
           i < j => FirstIndex(ws, kw[i]) < FirstIndex(ws, kw[j])
    /\ \A i \in 1..Len(kw) : \A p \in 1..FirstIndex(ws, kw[i]) :
           \E j \in 1..i : kw[j] = ws[p]

IsFallbackOf(res, text) ==
    /\ res.model = "fallback" /\ res.error
    /\ res.sentiment = 50000
    /\ res.sentiment_label = "neutral"
    /\ res.confidence = 30000
    /\ res.tone = "neutral"
    /\ IsFirstDistinct(res.keywords, LongWordsOf(text))
    /\ res.short_summary = SubSeq(text, 1, Min(100, Len(text)))

\* C12: the local fallback result always has sentiment 0.5, label neutral,
\* confidence 0.3, tone neutral and a fallback marker; its keywords are the
\* first 5 distinct words longer than 3 characters of the input text in
\* first-seen order and its summary is the first 100 characters of the input.
C12_FallbackShape ==
    /\ fNew # NoFallback => IsFallbackOf(fNew, fText)
    /\ fOld # NoFallback => IsFallbackOf(fOld, fText)

(***************************************************************************)
(* Claims about buildAnalysisResponse (SpecBuild)                          *)
(***************************************************************************)
Built == bResult.state # "none"

InUnitInterval(v) == v.t = "number" /\ 0 <= v.n /\ v.n <= 100000

\* parsed.keywords.map(String), empty when parsed.keywords is no array
GivenKeywords ==
    IF bParsed.isArray
      THEN [i \in 1..Len(bParsed.keywords) |-> ToStr(bParsed.keywords[i])]
      ELSE <<>>

\* the first occurrence of every value of s, values compared ignoring case
RECURSIVE UniqueIgnoringCase(_)
UniqueIgnoringCase(s) ==
    IF s = <<>> THEN <<>>
    ELSE LET r == UniqueIgnoringCase(SubSeq(s, 1, Len(s) - 1))
             last == s[Len(s)]
         IN  IF \E i \in 1..Len(r) : ToLowerCase(r[i]) = ToLowerCase(last)
               THEN r ELSE Append(r, last)

\* C15: for every parsed input buildAnalysisResponse returns without throwing
\* and its result has sentiment in [0,1], confidence in [0,1] and at most 7
\* keywords; a classifier-supplied confidence is used only when it is a
\* number in [0,1], otherwise the confidence is derived from the sentiment.
C15_BuilderTotal ==
    Built =>
        /\ bResult.state = "returned"
        /\ InUnitInterval(bResult.data.sentiment)
        /\ InUnitInterval(bResult.data.confidence)
        /\ Len(bResult.data.keywords) <= 7
        /\ IF InUnitInterval(bParsed.confidence)
             THEN bResult.data.confidence = JsNumber(ToFixed3(bParsed.confidence.n))
             ELSE bResult.data.confidence
                     = JsNumber(ToFixed3(DeriveConfidence(bResult.data.sentiment).n))

\* C16: the sentiment label of every built result is one of negative,
\* neutral, positive: a classifier-supplied label is kept only if it is one
\* of these three, otherwise the label is derived from the normalized
\* sentiment.
C16_LabelIsEnum ==
    bResult.state = "returned" =>
        /\ bResult.data.sentiment_label \in {S_negative, S_neutral, S_positive}
        /\ IF /\ bParsed.sentiment_label.t = "string"
              /\ bParsed.sentiment_label.s \in {S_negative, S_neutral, S_positive}
             THEN bResult.data.sentiment_label = bParsed.sentiment_label.s
             ELSE bResult.data.sentiment_label
                     = DeriveSentimentLabel(bResult.data.sentiment)

\* C17: the keywords of every built result contain no two entries that are
\* equal ignoring case, keep the first-seen casing and the relative order of
\* the source list, and number at most 7.
C17_KeywordsDistinctIgnoringCase ==
    bResult.state = "returned" =>
        LET kw == bResult.data.keywords
        IN  /\ Len(kw) <= 7
            /\ \A i, j \in 1..Len(kw) :
                   i < j => ToLowerCase(kw[i]) # ToLowerCase(kw[j])
            /\ GivenKeywords # <<>> =>
                   kw = SliceTo(UniqueIgnoringCase(GivenKeywords), 7)

\* C18: every analysis result has a short summary of at most 220 characters,
\* whether it was supplied by the classifier or derived from the raw model
\* text or the original input.
C18_SummaryAtMost220 ==
    bResult.state = "returned" => Len(bResult.data.short_summary) <= 220

(***************************************************************************)
(* Claims about the field normalizers (SpecNormalize)                      *)
(***************************************************************************)
\* C19: deriveSentimentLabel returns negative exactly for sentiment < 0.4,
\* positive exactly for sentiment > 0.6, and neutral for every value in
\* [0.4, 0.6], both boundaries included.
C19_LabelThresholds ==
    (dDerived # <<>> /\ dValue.t = "number") =>
        /\ dDerived = S_negative <=> dValue.n < 40000
        /\ dDerived = S_positive <=> dValue.n > 60000
        /\ dDerived = S_neutral <=> (40000 <= dValue.n /\ dValue.n <= 60000)

\* deriveSentimentLabel(0.6) was called and returned neutral
C19_Witness == dValue = JsNumber(60000) /\ dDerived = S_neutral

\* C20: normalizeSentiment returns a value in [0,1] for every input: a
\* number in (1,100] is divided by 100, a number above 100 clamps to 1, a
\* negative number clamps to 0 and a number in [0,1] is returned unchanged;
\* without a numeric value a label maps case-insensitively to positive 0.8,
\* neutral 0.5, negative 0.2, and anything else gives 0.5.
C20_NormalizeSentiment ==
    dSentiment # JsUndefined =>
        /\ InUnitInterval(dSentiment)
        /\ dValue.t = "number" =>
              dSentiment.n =
                  IF dValue.n > 10000000 THEN 100000
                  ELSE IF dValue.n > 100000 THEN dValue.n \div 100
                  ELSE IF dValue.n < 0 THEN 0
                  ELSE dValue.n
        /\ dValue.t \notin {"number", "nan"} =>
              dSentiment.n =
                  IF dLabel.t # "string" THEN 50000
                  ELSE IF ToLowerCase(dLabel.s) = S_positive THEN 80000
                  ELSE IF ToLowerCase(dLabel.s) = S_negative THEN 20000
                  ELSE 50000

(***************************************************************************)
(* Claims about POST /process_text (SpecServer)                            *)
(***************************************************************************)
\* no upstream classifier call was made for the request being handled
NoUpstreamCall == gPc = "idle" /\ gLog = <<>>

\* the text is a string shorter than 3 characters after trimming
ShortAfterTrim(body) == body.t = "string" /\ StrLength(TrimBody(body)) < 3

IsNeutralAnswer(res) ==
    /\ res.status = 200 /\ res.success
    /\ res.data.sentiment = JsNumber(50000)
    /\ res.data.sentiment_label = S_neutral
    /\ res.data.tone = JsString(S_neutral)
    /\ res.data.keywords = <<>>

IsInvalidText(body) ==
    \/ body.t # "string"
    \/ StrLength(TrimBody(body)) = 0
    \/ StrLength(body) > 10000

NamesTextField(message) == \E i \in 1..Len(message) : message[i] = "'text'"

\* C14: a /process_text request whose text is missing, not a string, blank,
\* or longer than 10,000 characters is rejected with HTTP status 400 and an
\* error that names the text field, and no upstream classifier call is made
\* for it.
C14_InvalidTextRejected ==
    (sPc # "idle" /\ IsInvalidText(sBody)) =>
        /\ sPc = "responded"
        /\ sResponse.status = 400 /\ ~sResponse.success
        /\ sResponse.error.statusCode = 400
        /\ NamesTextField(sResponse.error.message)
        /\ NoUpstreamCall

(***************************************************************************)
(* Claims about parseJsonFromText and the response built from a reply      *)
(* (SpecParse)                                                             *)
(***************************************************************************)
\* the sentiment texts of the loose replies, with the number each denotes
\* and the label deriveSentimentLabel gives that number
LooseCases ==
    {[text |-> <<"0", ".", "2">>, value |-> 20000, label |-> <<"n", "e", "g", "a", "t", "i", "v", "e">>],
     [text |-> <<"0", ".", "9">>, value |-> 90000, label |-> <<"p", "o", "s", "i", "t", "i", "v", "e">>]}

\* the replies of the kind  Sure! {sentiment: 0.2, 'tone':'sad',}  that
\* carry the sentiment of case c: keys in keyStyles, single-quoted strings,
\* a trailing comma
LooseRepliesOf(c, keyStyles) ==
    {LooseReply(p, k, "single", c.text, t, x) :
        p \in ReplyPrefixes, k \in keyStyles, t \in TrailingCommas \ {<<>>},
        x \in ReplySuffixes}

RepairedAndBuilt(c) ==
    /\ jParsed.ok
    /\ ParsedFields(jParsed.val).sentiment = JsNumber(c.value)
    /\ ParsedFields(jParsed.val).tone = JsString(<<"s", "a", "d">>)
    /\ ParsedFields(jParsed.val).sentiment_label = JsUndefined
    /\ jResult.state = "returned"
    /\ jResult.data.sentiment = JsNumber(c.value)
    /\ jResult.data.tone = JsString(<<"s", "a", "d">>)
    /\ jResult.data.sentiment_label = c.label

\* C21: a reply whose JSON span has single-quoted strings, an unquoted key
\* and a trailing comma is repaired and parsed to an object with the
\* sentiment and the tone it carries, and the builder fills the missing
\* label by deriveSentimentLabel (0.2 gives negative).
C21_LooseReplyRepaired ==
    \A c \in LooseCases :
        jPc = "built" /\ jRaw \in LooseRepliesOf(c, {"none"}) => RepairedAndBuilt(c)

\* the texts a well-formed reply is drawn from, with what each denotes
FullSentimentCases ==
    {[text |-> <<"0", ".", "9">>, value |-> 90000], [text |-> <<"0", ".", "2">>, value |-> 20000],
     [text |-> <<"0", ".", "5">>, value |-> 50000]}

\* rounded: the confidence to three decimals
FullConfidenceCases ==
    {[text |-> <<"0", ".", "9", "5">>, value |-> 95000, rounded |-> 95000],
     [text |-> <<"0", ".", "8", "7", "6", "6">>, value |-> 87660, rounded |-> 87700],
     [text |-> <<"1">>, value |-> 100000, rounded |-> 100000],
     [text |-> <<"0">>, value |-> 0, rounded |-> 0]}

\* extracted: what extractKeywords finds in the summary of the reply
FullKeywordCases ==
    {[text |-> <<"[", "\"", "t", "h", "r", "i", "l", "l", "e", "d", "\"", "]">>, list |-> <<<<"t", "h", "r", "i", "l", "l", "e", "d">>>>],
     [text |-> <<"[", "\"", "l", "a", "u", "n", "c", "h", "\"", ",", " ", "\"",
      "T", "e", "a", "m", "\"", ",", " ", "\"", "b", "i", "g",
      " ", "w", "i", "n", "\"", "]">>,
      list |-> <<<<"l", "a", "u", "n", "c", "h">>, <<"T", "e", "a", "m">>, <<"b", "i", "g", " ", "w", "i", "n">>>>],
     [text |-> <<"[", "]">>, list |-> <<>>]}

SummaryKeywords == <<<<"s", "p", "e", "a", "k", "e", "r">>, <<"t", "h", "r", "i", "l", "l", "e", "d">>>>

FullToneValue == <<"j", "o", "y", "f", "u", "l">>
FullSummaryValue == <<"S", "p", "e", "a", "k", "e", "r", " ", "i", "s", " ", "t",
      "h", "r", "i", "l", "l", "e", "d", ".">>

\* the built response of a well-formed reply carries the fields given
CarriesFields(s, l, confidence, keywords) ==
    /\ jParsed.ok
    /\ jResult.state = "returned"
    /\ jResult.model = ConfigMODEL
    /\ jResult.model # "fallback"
    /\ jResult.data.sentiment = JsNumber(s.value)
    /\ jResult.data.sentiment_label = l
    /\ jResult.data.confidence = JsNumber(confidence)
    /\ jResult.data.keywords = keywords
    /\ jResult.data.tone = JsString(FullToneValue)
    /\ jResult.data.short_summary = FullSummaryValue

TokensOf(text) ==
    SelectSeq(SplitWhitespace(ToLowerCase(StripPunctuation(text))), NonEmpty)

IsBigram(e) == \E i \in 1..Len(e) : e[i] = " "

\* the weight of an entry as the claim counts it, in tenths: 1.0 for every
\* occurrence of a word, 1.2 for every occurrence of a bigram
ClaimedWeight(tokens, e) ==
    IF IsBigram(e)
      THEN 12 * Cardinality({i \in 1..(Len(tokens) - 1) :
                               tokens[i] \o <<" ">> \o tokens[i + 1] = e})
      ELSE 10 * Cardinality({i \in 1..Len(tokens) : tokens[i] = e})

\* when the entry was first seen: a bigram right after its first word
FirstSeen(tokens, e) ==
    IF IsBigram(e)
      THEN 2 * SetMin({i \in 1..(Len(tokens) - 1) :
                         tokens[i] \o <<" ">> \o tokens[i + 1] = e}) + 1
      ELSE 2 * SetMin({i \in 1..Len(tokens) : tokens[i] = e})

KeywordsWellFormed(r) ==
    /\ Len(r) <= kLimit
    /\ \A i, j \in 1..Len(r) : i < j => ToLowerCase(r[i]) # ToLowerCase(r[j])
    /\ \A i \in 1..Len(r) :
          IF IsBigram(r[i])
            THEN \A w \in {SplitSpace(r[i])[n] : n \in 1..Len(SplitSpace(r[i]))} :
                    w \notin STOPWORDS
            ELSE r[i] \notin STOPWORDS /\ Len(r[i]) >= 3

KeywordsRanked(tokens, r) ==
    \A i, j \in 1..Len(r) :
        i < j =>
            \/ ClaimedWeight(tokens, r[i]) > ClaimedWeight(tokens, r[j])
            \/ /\ ClaimedWeight(tokens, r[i]) = ClaimedWeight(tokens, r[j])
               /\ FirstSeen(tokens, r[i]) < FirstSeen(tokens, r[j])

\* C23: extractKeywords(text, limit) returns at most limit entries, all
\* distinct also ignoring case; no returned word is a stopword or shorter
\* than 3 characters and no returned bigram contains a stopword; the entries
\* are in order of non-increasing weight (1.0 for each occurrence of a word,
\* 1.2 for each occurrence of a bigram), equal weights in first-seen order.
C23_ExtractKeywords ==
    kResult.state = "returned" /\ kText # <<>>
        => /\ KeywordsWellFormed(kResult.list)
           /\ KeywordsRanked(TokensOf(kText), kResult.list)

(***************************************************************************)
(* Claims about the start of the server and GET /api/health (SpecStartup)  *)
(***************************************************************************)
\* a classifier API key is configured: one of the two variables is set to a
\* value that is not empty
KeyConfigured(env) ==
    \/ env.GOOGLE_API_KEY.t = "string" /\ env.GOOGLE_API_KEY.s # <<>>
    \/ env.GEMINI_API_KEY.t = "string" /\ env.GEMINI_API_KEY.s # <<>>

\* C24: the server listens only when a classifier API key is configured
\* (without one the process exits with code 1 and answers nothing), and GET
\* /api/health answers 200 when the key is configured and 503 when not.
C24_ListensOnlyWithKey ==
    /\ hPc = "listening" => KeyConfigured(hEnv)
    /\ hAnswers # <<>> => KeyConfigured(hEnv)
    /\ ~KeyConfigured(hEnv) /\ hExitCode # NoExit /\ hExitCode # 0
          => hPc = "exited" /\ hExitCode = 1 /\ hAnswers = <<>>
    /\ KeyConfigured(hEnv) => hExitCode \in {NoExit, 0}
    /\ \A i \in 1..Len(hAnswers) :
          hAnswers[i].status = IF KeyConfigured(hEnv) THEN 200 ELSE 503
    /\ \A env \in Environments :
          HealthAnswer(env).status = IF KeyConfigured(env) THEN 200 ELSE 503

\* the server listens with the key taken from the second variable and has
\* answered a health request
C24_Witness ==
    /\ hPc = "listening"
    /\ hEnv.GOOGLE_API_KEY = JsString(<<>>)
    /\ hEnv.GEMINI_API_KEY = JsString(<<"k", "e", "y", "-", "1">>)
    /\ Len(hAnswers) >= 1
    /\ hAnswers[1].status = 200

(***************************************************************************)
(* Claims about the canvas and the App state it shows (SpecCanvas)         *)
(***************************************************************************)
\* a step is a frame of the canvas
IsFrame == pFrameParity' # pFrameParity

\* the displayed value moved toward the target by the easing fraction of the
\* remaining distance (to the nearest unit) and did not pass it
MovedTowardTarget ==
    /\ Abs(pSentiment - pSmoothed') <= Abs(pSentiment - pSmoothed)
    /\ (pSmoothed <= pSentiment) => (pSmoothed <= pSmoothed' /\ pSmoothed' <= pSentiment)
    /\ (pSmoothed >= pSentiment) => (pSmoothed >= pSmoothed' /\ pSmoothed' >= pSentiment)
    /\ pSmoothed' # pSentiment
          => Abs(100 * (pSmoothed' - pSmoothed)
                   - PARAMS_easing * (pSentiment - pSmoothed)) <= 50

\* C25: with the target held fixed every frame moves the displayed value
\* toward the target by the easing fraction of the remaining distance and
\* never past it; the value reaches the target exactly after finitely many
\* frames (a frame leaves it where it is only when it is at the target) and
\* then stays there.
C25_EasesAndSnaps ==
    [][IsFrame => /\ MovedTowardTarget
                  /\ pSmoothed' = pSmoothed => pSmoothed = pSentiment]_vars

\* the props were handed to the sketch after a new result had been handled
SeesNewResult == aUnseen /\ ~aUnseen'

\* a frame multiplied the pulse energy by 0.86 (to the nearest unit)
Decayed ==
    /\ pPulseEnergy' <= pPulseEnergy
    /\ Abs(100 * pPulseEnergy' - PULSE_DECAY * pPulseEnergy) <= 50

\* C26: pulseEnergy always lies in [0,1]; it is set to 1.0 when a new
\* analysis result arrives (real or fallback, with or without a change of
\* the sentiment); every frame multiplies it by 0.86, whether or not the
\* smoothed sentiment has converged, and only the arrival of a result
\* raises it.
C26_PulseEnergy ==
    /\ [](0 <= pPulseEnergy /\ pPulseEnergy <= ONE)
    /\ [][SeesNewResult => pPulseEnergy' = ONE]_vars
    /\ [][IsFrame => Decayed]_vars
    /\ [][pPulseEnergy' > pPulseEnergy => SeesNewResult]_vars

\* C28: the keyword set shown accumulates over a session: after each new
\* analysis result it contains that result's keywords together with the
\* keywords of the earlier results.
C28_KeywordsAccumulate ==
    aAllKeywords \subseteq {aKeywords[i] : i \in 1..Len(aKeywords)}

(***************************************************************************)
(* C27                                                                     *)
(***************************************************************************)
\* a step in which a socket raised its error event
SocketFails == Len(wFaults') = Len(wFaults) + 1

\* the hook keeps what it needs to process the lines of a later start()
OrchestratorKept ==
    /\ wService' = wService
    /\ wHandlers' = wHandlers
    /\ wTrace' = wTrace
    /\ wEvents' = wEvents

\* C27: every error event of the socket, while connecting or after the
\* socket opened, is handed to the onError observer of the hook, and it
\* leaves the hook able to process the transcript lines that follow.
C27_TransportErrorsReported ==
    [][SocketFails =>
         /\ wReported' = Append(wReported, wFaults'[Len(wFaults')])
         /\ OrchestratorKept]_vars

(***************************************************************************)
(* C29                                                                     *)
(***************************************************************************)
\* the events submitted, by their position in the arrival order
Submissions ==
    SelectSeq(wTrace, LAMBDA c : c.call = "callBackendAPI")

\* an event marked final that carries non-blank text
FinalNonBlank(ev) == ev.is_final /\ ev.text \notin {"", " "}

\* only final, non-blank events are submitted, in their arrival order
SubmittedInOrder ==
    /\ \A i \in DOMAIN Submissions :
          FinalNonBlank(wEvents[Submissions[i].event])
    /\ \A i, j \in DOMAIN Submissions :
          i < j => Submissions[i].event < Submissions[j].event

\* every event reaches the observer, and before the submission it triggers
ObservedFirst ==
    /\ \A n \in DOMAIN wEvents :
          \E i \in DOMAIN wTrace :
              wTrace[i] = [call |-> "onTranscriptLine", event |-> n]
    /\ \A i \in DOMAIN wTrace :
          wTrace[i].call = "callBackendAPI" =>
              /\ i > 1
              /\ wTrace[i - 1] =
                     [call |-> "onTranscriptLine", event |-> wTrace[i].event]

\* a step that handles an interim event
InterimArrives ==
    /\ Len(wEvents') = Len(wEvents) + 1
    /\ ~wEvents'[Len(wEvents')].is_final

\* what an interim event does: the partial text becomes its text
InterimReplacesPartial ==
    /\ wPartial' = wEvents'[Len(wEvents')].text
    /\ wTranscript' = wTranscript
    /\ Len(wTrace') = Len(wTrace) + 1
    /\ wTrace'[Len(wTrace')].call = "onTranscriptLine"

\* C29: only transcript events marked final with non-blank text are
\* submitted (callBackendAPI), in arrival order; an interim event only
\* replaces the partial text and submits nothing; every event is passed to
\* onTranscriptLine before the submission it triggers.
C29_TranscriptRouting ==
    /\ [](SubmittedInOrder /\ ObservedFirst)
    /\ [][InterimArrives => InterimReplacesPartial]_vars

(***************************************************************************)
(* C30                                                                     *)
(***************************************************************************)
\* a call of callGeminiAPI is under way / is over
CallRunning == gPc \in {"attempting", "waiting"}
CallOver == gPc \in {"returned", "thrown"}

\* a step in which the attempt under way ends, and how it ended
AttemptEnds == gPc = "attempting" /\ Len(gLog') = Len(gLog) + 1
EndedWith == gLog'[Len(gLog')]

\* a step in which an attempt is posted
AttemptBegins ==
    gPc' = "attempting" /\ (gPc # "attempting" \/ gAttempt' # gAttempt)

\* what a retryable failure of attempt number gAttempt leads to: the backoff
\* wait and, after it, the next attempt while attempts are left, the error
\* when none is
RetryableHandling ==
    IF gAttempt < gRetries
      THEN /\ gPc' = "waiting"
           /\ gWaits' = Append(gWaits, Min(1000 * Pow2(gAttempt), 5000))
           /\ gAttempt' = gAttempt
      ELSE /\ gPc' = "thrown"
           /\ gWaits' = gWaits
           /\ gOutcome'.type = "error"

IsSuccessAnswer(res) ==
    /\ res.status = 200
    /\ res.success
    /\ res.data # NoData
    /\ res.metadata.timestamp
    /\ res.metadata.processing_time.t = "number"

\* the body of a failure, sent with the status its error names
IsFailureAnswer(res) ==
    /\ ~res.success
    /\ res.error.message # <<>>
    /\ res.error.type # ""
    /\ res.status = res.error.statusCode

\* the status of a classifier failure: the upstream's, 500 without one
UpstreamStatusSent ==
    (gPc = "thrown" /\ sPc = "responded") =>
        LET last == gLog[Len(gLog)]
        IN  sResponse.status = IF last.kind = "http" THEN last.status ELSE 500

\* how far a request that awaits the classifier is from its response: the
\* attempts left, then the backoff or the rest of the attempt's timeout
StepsToResponse ==
    IF sPc # "upstream" THEN 0
    ELSE 1 + 100000 * (gRetries + 1 - Len(gLog))
           + (CASE gPc = "waiting" -> 50000
                [] gPc = "attempting" -> 1 + API_TIMEOUT - gElapsed
                [] OTHER -> 0)

FirstToLastBrace(text) ==
    IF \E i, j \in 1..Len(text) : i < j /\ text[i] = "{" /\ text[j] = "}"
      THEN LET i == CHOOSE a \in 1..Len(text) :
                        text[a] = "{" /\ \A b \in 1..(a - 1) : text[b] # "{"
               j == CHOOSE a \in 1..Len(text) :
                        text[a] = "}" /\ \A b \in (a + 1)..Len(text) : text[b] # "}"
           IN  SubSeq(text, i, j)
      ELSE <<>>

\* a comma that only white space separates from a closing } or ]
IsTrailingComma(text, i) ==
    /\ text[i] = ","
    /\ \E j \in (i + 1)..Len(text) :
          /\ text[j] \in {"}", "]"}
          /\ \A k \in (i + 1)..(j - 1) : text[k] \in WhiteSpace

\* the span without its trailing commas and with " for every '
RECURSIVE RepairedFrom(_, _)
RepairedFrom(text, i) ==
    IF i > Len(text) THEN <<>>
    ELSE IF IsTrailingComma(text, i) THEN RepairedFrom(text, i + 1)
    ELSE <<IF text[i] = "'" THEN "\"" ELSE text[i]>> \o RepairedFrom(text, i + 1)

\* what the sentence says the call returns for a text
ParseAsDescribed(text) ==
    LET span == FirstToLastBrace(text)
        strict == JsonParse(span)
        repaired == JsonParse(RepairedFrom(span, 1))
    IN  IF span = <<>> THEN JsonNull
        ELSE IF strict.ok THEN [ok |-> TRUE, val |-> strict.val]
        ELSE IF repaired.ok THEN [ok |-> TRUE, val |-> repaired.val]
        ELSE JsonNull

FinalAccepted ==
    /\ Len(finals') = Len(finals) + 1
    /\ lastTranscriptRef' = finals'[Len(finals')].text

\* a step in which cleanup() forgets the text
SessionStopped == epoch' = epoch + 1 /\ lastTranscriptRef' = ""

\* C33: lastTranscriptRef.current changes only when a new final line is
\* accepted or when the session is stopped; a retry of an earlier text does
\* not overwrite it, so a duplicate of the latest final line stays rejected.
C33_LastTextStable ==
    [][lastTranscriptRef' # lastTranscriptRef =>
           (FinalAccepted \/ SessionStopped)]_vars

(***************************************************************************)
(* C34.  The pending controllers of the hook.                              *)
(***************************************************************************)
MaxPendingReqs == 2     \* requests started per run of SpecPending
MaxPendingFinals == 2   \* final events per run of SpecPending

\* the run of SpecPending stays within its bounds
PendingBound ==
    /\ Len(reqs') <= MaxPendingReqs
    /\ Len(finals') <= MaxPendingFinals

PendingNext ==
    \/ \E ok \in BOOLEAN : Start(ok) /\ PendingBound
    \/ Stop /\ PendingBound
    \/ InitializeServices /\ PendingBound
    \/ \E text \in Texts : FinalTranscript(text) /\ PendingBound
    \/ \E r \in DOMAIN reqs : TimeoutFires(r) /\ PendingBound
    \/ \E r \in DOMAIN reqs, outcome \in Outcomes :
          BackendResponds(r, outcome) /\ PendingBound
    \/ \E r \in DOMAIN reqs : AbortRejects(r) /\ PendingBound
    \/ \E t \in retryTimers : RetryTimerFires(t) /\ PendingBound

SpecPending == Init /\ [][PendingNext]_vars

\* the requests in flight: started, their promise not settled, and not
\* cancelled by a cleanup
InFlightNow ==
    {r \in DOMAIN reqs : reqs[r].st # "done" /\ reqs[r].epoch = epoch}

\* a request starts in this step
StartsRequest(r) == r \in DOMAIN reqs' /\ r \notin DOMAIN reqs

\* a request completes in this step, on whichever path
CompletesRequest(r) ==
    r \in DOMAIN reqs /\ reqs[r].st # "done" /\ reqs'[r].st = "done"

\* C34: the set of pending abort controllers holds exactly the requests in
\* flight.  A controller is added, with its timeout timer armed, in the step
\* that starts its request; the step that completes a request (success, error
\* response, network error or abort) removes the controller and clears the
\* timer; and the set is empty after every cleanup.
C34_PendingControllers ==
    /\ [](pendingRequestsRef = InFlightNow)
    /\ [][\A r \in DOMAIN reqs' :
            StartsRequest(r) =>
                r \in pendingRequestsRef' /\ reqs'[r].timer = "armed"]_vars
    /\ [][\A r \in DOMAIN reqs :
            CompletesRequest(r) =>
                r \notin pendingRequestsRef' /\ reqs'[r].timer = "cleared"]_vars
    /\ [](\A r \in DOMAIN reqs :
            reqs[r].st = "done" =>
                r \notin pendingRequestsRef /\ reqs[r].timer = "cleared")
    /\ [][epoch' # epoch => pendingRequestsRef' = {}]_vars

\* the first request timed out and completed on the abort path, the next
\* one was cancelled by a cleanup before it settled
C34_Witness ==
    /\ Len(reqs) = 2
    /\ reqs[1].st = "done" /\ reqs[1].result = "cancel"
    /\ reqs[1].timer = "cleared"
    /\ reqs[2].st = "aborted" /\ reqs[2].timer = "armed"
    /\ reqs[2].retryCount = 0
    /\ epoch = 1
    /\ pendingRequestsRef = {}

(***************************************************************************)
(* C35.  What stays open after stop() of the audio capture service.        *)
(***************************************************************************)
\* no start() call awaits the microphone or the context, no stop() call
\* awaits the closing of a context
CaptureSettled ==
    /\ mStops = 0
    /\ \A c \in CaptureCalls : mStartPc[c] \notin {"mic", "resume"}

\* the processors that still get audio events
LiveProcessors == {w \in mWired : w.ctx \in mOpenContexts}

\* C35: once the last call among start() and stop() is a stop() and every
\* start() and stop() call has settled, no microphone stream has live
\* tracks, no audio context is open and no processor is still connected to
\* an open context.
C35_StopReleasesAll ==
    (mLast = "stop" /\ CaptureSettled) =>
        /\ mOpenStreams = {}
        /\ mOpenContexts = {}
        /\ LiveProcessors = {}

(***************************************************************************)
(* C39.  The recording and paused flags of the audio capture service.      *)
(***************************************************************************)
\* the public function op is called in this step
Calls(op) == mCalls' = mCalls + 1 /\ mOp' = op

\* the state of the service, without the bookkeeping of the calls
CaptureState ==
    <<mRecording, mPaused, mChunkCallback, mMediaStream, mAudioContext,
      mAudioInput, mProcessor, mOpenStreams, mOpenContexts, mWired, mStartPc,
      mStops, mChunks>>

PausedImpliesRecording == mPaused => mRecording

StartIsNoOpWhileRecording ==
    (Calls("start") /\ mRecording) => UNCHANGED CaptureState

StopIsNoOpWhenNotRecording ==
    (Calls("stop") /\ ~mRecording) => UNCHANGED CaptureState

StopClearsPaused == Calls("stop") => ~mPaused'

PauseResumeNoOpsWhenNotRecording ==
    ((Calls("pause") \/ Calls("resume")) /\ ~mRecording) =>
        UNCHANGED CaptureState

ChunksOnlyWhileRecording ==
    mChunks' # mChunks => (mRecording /\ ~mPaused)

\* C39: the paused flag implies the recording flag in every reachable state;
\* start() changes nothing while recording, stop() changes nothing when not
\* recording and leaves the paused flag clear, pause() and resume() change
\* nothing when not recording, and a chunk is handed to the chunk callback
\* only while recording and not paused.
C39_FlagsConsistent ==
    /\ []PausedImpliesRecording
    /\ [][StartIsNoOpWhileRecording]_vars
    /\ [][StopIsNoOpWhenNotRecording]_vars
    /\ [][StopClearsPaused]_vars
    /\ [][PauseResumeNoOpsWhenNotRecording]_vars
    /\ [][ChunksOnlyWhileRecording]_vars

(***************************************************************************)
(* C36.  What one Deepgram service holds.                                  *)
(***************************************************************************)
AtMostOneOpen == Cardinality(OpenSockets) <= 1 /\ Cardinality(rLive) <= 1

\* every open socket is the one in ws, every live stream the one in stream
NoneUnreferenced ==
    /\ \A k \in OpenSockets : k = rWs
    /\ \A k \in rLive : k = rStream

\* a stop() called from outside resolves in this step
StopResolves == rResolved' = rResolved + 1

\* (a context that stop() found closed stays in audioContext; it is not
\* counted as held)
NothingHeld ==
    /\ rStream = Null
    /\ rWs = Null
    /\ rAudioContext \notin rOpenContexts
    /\ rProcessor = Null

\* C36: a Deepgram service never has more than one socket that is connecting
\* or open nor more than one stream with live tracks, whatever the order of
\* its start() calls; no open socket or live stream is ever out of reach of
\* ws and stream; and when a stop() resolves, stream, ws and processor are
\* null and audioContext holds no open context.
C36_SingleSocketAndStream ==
    /\ [](AtMostOneOpen /\ NoneUnreferenced)
    /\ [][StopResolves => NothingHeld']_vars

(***************************************************************************)
(* C37.  A start() of the Deepgram service that fails.                     *)
(***************************************************************************)
\* nothing that start() call c acquired is still open
Released(c) ==
    /\ c \notin rLive
    /\ rSocket[c] \notin {"connecting", "open"}
    /\ c \notin rOpenContexts
    /\ c \notin rWired

\* no other start() call is under way
OnlyCall(c) ==
    \A k \in ServiceCalls \ {c} : rPc[k] \in {"idle", "thrown"}

\* the service is as it was made: a start() finds what the first one found
AsNew ==
    /\ rWs = Null /\ rStream = Null /\ rProcessor = Null /\ rAudioInput = Null
    /\ rAudioContext \notin rOpenContexts
    /\ rLive = {} /\ OpenSockets = {} /\ rOpenContexts = {} /\ rWired = {}

\* C37: when a start() call has thrown, whatever its failing step (microphone,
\* token, socket error, connection timeout), the stream, socket, context and
\* processor it had acquired are released, its connection timer is no longer
\* pending, the caller has the error, and, with no other call under way, the
\* service is as new, so that it can be started again.
C37_FailedStartCleansUp ==
    \A c \in ServiceCalls :
        rPc[c] = "thrown" =>
            /\ Released(c)
            /\ rTimer[c] # "pending"
            /\ rErr[c] \in {"microphone", "token", "socket", "timeout",
                            "TypeError"}
            /\ OnlyCall(c) /\ rStops = 0 => AsNew

(***************************************************************************)
(* C38.  The partial text and the list of final lines of the App.          *)
(***************************************************************************)
\* a final event is handed to the transcript callback in this step
FinalHandled ==
    /\ Len(wEvents') = Len(wEvents) + 1
    /\ wEvents'[Len(wEvents')].is_final

\* after it the partial is empty and its text is the last final line
FinalIsLastLine ==
    /\ wPartial' = ""
    /\ wTranscript' # <<>>
    /\ wTranscript'[Len(wTranscript')] = wEvents'[Len(wEvents')].text

\* the list of final lines keeps what it had, in the same order
TranscriptGrows ==
    /\ Len(wTranscript') >= Len(wTranscript)
    /\ SubSeq(wTranscript', 1, Len(wTranscript)) = wTranscript

\* C38: after a final transcript event has been handled, the partial text is
\* empty and the event's text is the last entry of the list of final lines;
\* the list of final lines only ever grows, in arrival order; and an interim
\* event never changes it.
C38_FinalLines ==
    /\ [][FinalHandled => FinalIsLastLine]_vars
    /\ [][TranscriptGrows]_vars
    /\ [][InterimArrives => wTranscript' = wTranscript]_vars

====
